---- MODULE Spec2Model ----
(***************************************************************************)
(* Verification model of the reactive coordination engine:                 *)
(*   - the response agent's finite-state pipeline                          *)
(*     (src/lab3/rescue_respond_agent.py), specifications SpecFSM and,     *)
(*     under a fair scheduler, SpecFSMFair;                                *)
(*   - the FIPA-ACL request/response coordination protocol                 *)
(*     (src/lab4/fipa_acl.py), specification SpecACL, with the rescue      *)
(*     agents alone in SpecRescue and the coordinator alone in SpecCoord;  *)
(*   - the disaster environment                                            *)
(*     (src/lab2/perception_and_environment_modelling.py), SpecEnv.        *)
(***************************************************************************)
EXTENDS Integers, Sequences, FiniteSets, Bags, TLC

\* ------------------------------------------------------------------------
\* Bounds of the model
\* ------------------------------------------------------------------------
\* number of messages ever delivered to the response agent's FSM mailbox
MaxDeliveries == 2
\* number of distinct event ids the sensors' random draw can produce
NumEventIds == 2
\* number of resource requests put in flight in SpecRescue
MaxRequests == 2
\* number of update_conditions calls on the environment
MaxUpdates == 1
\* number of check_for_disasters calls on the environment
MaxChecks == 2
\* number of disaster alerts put in flight in SpecCoord
MaxAlerts == 2
\* number of resource responses put in flight in SpecCoord
MaxResponses == 2

\* ------------------------------------------------------------------------
\* Response agent (lab3): constants
\* ------------------------------------------------------------------------
STATE_IDLE == "IDLE"
STATE_ANALYZING == "ANALYZING"
STATE_PLANNING == "PLANNING"
STATE_RESPONDING == "RESPONDING"
STATE_MONITORING == "MONITORING"
STATE_COMPLETED == "COMPLETED"

States ==
  {STATE_IDLE, STATE_ANALYZING, STATE_PLANNING, STATE_RESPONDING,
   STATE_MONITORING, STATE_COMPLETED}

\* the transitions registered with fsm.add_transition
Transitions ==
  { <<STATE_IDLE, STATE_IDLE>>,
    <<STATE_IDLE, STATE_ANALYZING>>,
    <<STATE_ANALYZING, STATE_PLANNING>>,
    <<STATE_PLANNING, STATE_RESPONDING>>,
    <<STATE_RESPONDING, STATE_MONITORING>>,
    <<STATE_MONITORING, STATE_COMPLETED>>,
    <<STATE_COMPLETED, STATE_IDLE>> }

\* SeverityLevel values
SeverityLevel == 1..5

\* RescueGoal members
ASSESS_SITUATION == "ASSESS_SITUATION"
DEPLOY_RESOURCES == "DEPLOY_RESOURCES"
EVACUATE_CIVILIANS == "EVACUATE_CIVILIANS"
PROVIDE_MEDICAL_AID == "PROVIDE_MEDICAL_AID"
RESTORE_INFRASTRUCTURE == "RESTORE_INFRASTRUCTURE"
MONITOR_RECOVERY == "MONITOR_RECOVERY"

\* Goal.completed_at default (None); timestamps of the model start at 1
NoTime == 0

\* Python's None as a value of the model
None == [pytype |-> "NoneType"]

\* ------------------------------------------------------------------------
\* Message bodies and json.loads
\* ------------------------------------------------------------------------
\* A message body is a string on the wire.  The model keeps the classes of
\* strings the code distinguishes:
\*   "text"   a non-empty string that is not JSON
\*   "empty"  the empty string
\*   "array"  JSON that is not an object (a list, a number, null ...)
\*   "object" a JSON object; it carries an event_id and a severity entry
\*            that is an integer, a string, or missing
Bodies(eid) ==
  { [kind |-> "text", event_id |-> eid, sev_type |-> "absent", severity |-> 0],
    [kind |-> "empty", event_id |-> eid, sev_type |-> "absent", severity |-> 0],
    [kind |-> "array", event_id |-> eid, sev_type |-> "absent", severity |-> 0],
    [kind |-> "object", event_id |-> eid, sev_type |-> "absent", severity |-> 0],
    [kind |-> "object", event_id |-> eid, sev_type |-> "str", severity |-> 0] }
  \cup { [kind |-> "object", event_id |-> eid, sev_type |-> "int", severity |-> s] :
           s \in SeverityLevel }

\* json.loads(body): raises JSONDecodeError on text that is not JSON and on
\* the empty string, returns a list for a JSON array and a dict for an object
json_loads(body) ==
  CASE body.kind \in {"text", "empty"} ->
         [raised |-> "JSONDecodeError", value |-> None]
    [] body.kind = "array" ->
         [raised |-> "", value |-> [pytype |-> "list"]]
    [] body.kind = "object" ->
         [raised |-> "",
          value |-> [pytype |-> "dict", event_id |-> body.event_id,
                     sev_type |-> body.sev_type, severity |-> body.severity]]

\* event.get('severity', 1) as a typed Python value
get_severity(event) ==
  IF event.sev_type = "absent" THEN [pytype |-> "int", val |-> 1]
  ELSE [pytype |-> event.sev_type, val |-> event.severity]

\* ------------------------------------------------------------------------
\* State
\* ------------------------------------------------------------------------
VARIABLES
  current_state,   \* FSMBehaviour.current_state
  killed,          \* the FSM behaviour was killed by an uncaught exception
  current_event,   \* ResponseAgent.current_event
  goals,           \* ResponseAgent.goals
  fsm_trace,       \* ResponseAgent.fsm_trace
  mailbox,         \* queue of the FSM behaviour (messages matching its template)
  delivered,       \* number of messages delivered so far
  clock,           \* value the next datetime.now() returns
  resp_pc,         \* position inside RespondingState.run
  pending_goals,   \* RespondingState.run: the sorted list (indices into goals)
  resp_i,          \* RespondingState.run: index of the next goal to execute
  last_step        \* history: the state whose run() executed latest, how it
                   \* ended, and a bit that flips on every FSM step

fsm_vars ==
  <<current_state, killed, current_event, goals, fsm_trace, mailbox,
    delivered, clock, resp_pc, pending_goals, resp_i, last_step>>

\* Coordination protocol (lab4)
VARIABLES
  net,                  \* messages sent and not yet received (a bag)
  message_log,          \* agent -> Agent.message_log
  available_resources,  \* rescue agent -> RescueAgent.available_resources
  sensor_pc,            \* sensor -> position in DetectDisasterBehaviour.run
  sensor_disaster,      \* sensor -> the disaster it generated
  alert_pc,             \* position in ReceiveAlertBehaviour.run
  alert_i,              \* _request_rescue_resources: index in rescue_agents
  disaster_data,        \* _request_rescue_resources: the alert being handled
  rescue_pc,            \* rescue agent -> position in ReceiveRequestBehaviour
  rescue_msg,           \* rescue agent -> request being handled
  rescue_response,      \* rescue agent -> response built for that request
  sent                  \* history: every message ever passed to send (a bag)

acl_vars ==
  <<net, message_log, available_resources, sensor_pc, sensor_disaster,
    alert_pc, alert_i, disaster_data, rescue_pc, rescue_msg, rescue_response,
    sent>>

\* Environment model (lab2)
VARIABLES
  current_conditions,   \* DisasterEnvironment.current_conditions
  conditions_history,   \* DisasterEnvironment.conditions_history
  active_disasters,     \* DisasterEnvironment.active_disasters
  event_history,        \* DisasterEnvironment.event_history
  event_counter,        \* DisasterEnvironment.event_counter
  new_disasters,        \* what the latest check_for_disasters returned
  checks,               \* history: number of check_for_disasters calls
  last_draw,            \* history: the random draws of the latest update
  env_last              \* history: the latest call on the environment

env_vars ==
  <<current_conditions, conditions_history, active_disasters, event_history,
    event_counter, new_disasters, checks, last_draw, env_last>>

vars == <<fsm_vars, acl_vars, env_vars>>

\* ------------------------------------------------------------------------
\* Response agent: helpers
\* ------------------------------------------------------------------------
\* Goal(...) dataclass; goal_id is the number printed by f"GOAL-{n:03d}"
Goal(id, type, prio, st, created) ==
  [goal_id |-> id, goal_type |-> type, priority |-> prio, status |-> st,
   created_at |-> created, completed_at |-> NoTime]

\* basic_goals with the medical-aid threshold off by one (severity > 3)
basic_goals_m(severity) ==
  <<  <<DEPLOY_RESOURCES, 5>>, <<EVACUATE_CIVILIANS, 5>> >>
  \o (IF severity > 3 THEN << <<PROVIDE_MEDICAL_AID, 4>> >> ELSE << >>)
  \o (IF severity >= 4 THEN << <<RESTORE_INFRASTRUCTURE, 3>> >> ELSE << >>)
  \o << <<MONITOR_RECOVERY, 2>> >>

\* PlanningState._generate_response_goals: the (goal_type, priority) list
basic_goals(severity) ==
  <<  <<DEPLOY_RESOURCES, 5>>, <<EVACUATE_CIVILIANS, 5>> >>
  \o (IF severity >= 3 THEN << <<PROVIDE_MEDICAL_AID, 4>> >> ELSE << >>)
  \o (IF severity >= 4 THEN << <<RESTORE_INFRASTRUCTURE, 3>> >> ELSE << >>)
  \o << <<MONITOR_RECOVERY, 2>> >>

\* _generate_response_goals whose numbering restarts with every plan
_generate_response_goals_m(severity, goal_counter, now) ==
  LET bg == basic_goals(severity)
  IN  [k \in 1..Len(bg) |->
         Goal(k, bg[k][1], bg[k][2], "pending", now + k - 1)]

\* PlanningState._generate_response_goals(severity), called with
\* len(self.agent.goals) = goal_counter and datetime.now() = now
_generate_response_goals(severity, goal_counter, now) ==
  LET bg == basic_goals(severity)
  IN  [k \in 1..Len(bg) |->
         Goal(goal_counter + k, bg[k][1], bg[k][2], "pending", now + k - 1)]

\* list.sort(key=priority, reverse=True) on a list of goal indices: a stable
\* sort, computed by insertion (an element is placed after every element
\* whose priority is greater than or equal to its own)
\* InsertByPriority without reverse=True (ascending priority)
RECURSIVE InsertByPriority_m(_, _, _)
InsertByPriority_m(sorted, g, gs) ==
  IF sorted = << >> THEN <<g>>
  ELSE IF gs[Head(sorted)].priority <= gs[g].priority
       THEN <<Head(sorted)>> \o InsertByPriority_m(Tail(sorted), g, gs)
       ELSE <<g>> \o sorted

RECURSIVE InsertByPriority(_, _, _)
InsertByPriority(sorted, g, gs) ==
  IF sorted = << >> THEN <<g>>
  ELSE IF gs[Head(sorted)].priority >= gs[g].priority
       THEN <<Head(sorted)>> \o InsertByPriority(Tail(sorted), g, gs)
       ELSE <<g>> \o sorted

\* (the sorted prefix is bound by a set so that it is computed once)
RECURSIVE SortByPriorityDesc(_, _)
SortByPriorityDesc(idx, gs) ==
  IF idx = << >> THEN << >>
  ELSE CHOOSE r \in
         { InsertByPriority(s, idx[Len(idx)], gs) :
             s \in {SortByPriorityDesc(SubSeq(idx, 1, Len(idx) - 1), gs)} } :
         TRUE

\* [g for g in self.agent.goals if g.status == st], as indices in list order
RECURSIVE IndicesWithStatus(_, _, _)
IndicesWithStatus(gs, st, from) ==
  IF from > Len(gs) THEN << >>
  ELSE (IF gs[from].status = st THEN <<from>> ELSE << >>)
       \o IndicesWithStatus(gs, st, from + 1)

\* ------------------------------------------------------------------------
\* Response agent: initial state (ResponseAgent.setup)
\* ------------------------------------------------------------------------
\* FSMInit that registers MONITORING as the initial state
FSMInit_m ==
  /\ current_state = STATE_MONITORING
  /\ killed = FALSE
  /\ current_event = None
  /\ goals = << >>
  /\ fsm_trace = << >>
  /\ mailbox = << >>
  /\ delivered = 0
  /\ clock = 1
  /\ resp_pc = "select"
  /\ pending_goals = << >>
  /\ resp_i = 1
  /\ last_step = [state |-> "", outcome |-> "", flip |-> FALSE]

\* ResponseAgent.setup: empty goal list and trace, the FSM starts in IDLE
FSMInit ==
  /\ current_state = STATE_IDLE
  /\ killed = FALSE
  /\ current_event = None
  /\ goals = << >>
  /\ fsm_trace = << >>
  /\ mailbox = << >>
  /\ delivered = 0
  /\ clock = 1
  /\ resp_pc = "select"
  /\ pending_goals = << >>
  /\ resp_i = 1
  /\ last_step = [state |-> "", outcome |-> "", flip |-> FALSE]

\* ------------------------------------------------------------------------
\* Response agent: actions
\* ------------------------------------------------------------------------
\* history record of an FSM step: run() of state st ended with outcome out
Step(st, out) == [state |-> st, outcome |-> out, flip |-> ~last_step.flip]

\* Deliver that puts the new message in front of the waiting ones
Deliver_m ==
  /\ delivered < MaxDeliveries
  /\ \E body \in Bodies(delivered + 1) :
       mailbox' = <<body>> \o mailbox
  /\ delivered' = delivered + 1
  /\ UNCHANGED <<current_state, killed, current_event, goals, fsm_trace,
                 clock, resp_pc, pending_goals, resp_i, last_step>>

\* The transport delivers a message with performative "inform" to the agent;
\* it is queued for the FSM behaviour, whatever state the FSM is in.
Deliver ==
  /\ delivered < MaxDeliveries
  /\ \E body \in Bodies(delivered + 1) :
       mailbox' = Append(mailbox, body)
  /\ delivered' = delivered + 1
  /\ UNCHANGED <<current_state, killed, current_event, goals, fsm_trace,
                 clock, resp_pc, pending_goals, resp_i, last_step>>

\* IdleState.run, receive(timeout=5) returned None
IdleTimeout ==
  /\ ~killed
  /\ current_state = STATE_IDLE
  /\ mailbox = << >>
  /\ current_state' = STATE_IDLE
  /\ last_step' = Step(STATE_IDLE, "timeout")
  /\ UNCHANGED <<killed, current_event, goals, fsm_trace, mailbox, delivered,
                 clock, resp_pc, pending_goals, resp_i>>

\* IdleReceive that also records the undecodable alert in the trace
IdleReceive_m ==
  /\ ~killed
  /\ current_state = STATE_IDLE
  /\ mailbox # << >>
  /\ mailbox' = Tail(mailbox)
  /\ LET parsed == json_loads(Head(mailbox))
         event_data == parsed.value
     IN  IF parsed.raised = "JSONDecodeError"
         THEN \* except json.JSONDecodeError: set_next_state(STATE_IDLE)
              /\ current_state' = STATE_IDLE
              /\ last_step' = Step(STATE_IDLE, "parse_error")
              /\ fsm_trace' = Append(fsm_trace,
                   [state |-> STATE_IDLE, timestamp |-> clock,
                    action |-> "Failed to parse event data",
                    event_id |-> 0])
              /\ UNCHANGED <<killed, current_event, goals, clock>>
         ELSE IF event_data.pytype # "dict"
         THEN \* current_event is assigned, then event_data.get raises
              \* AttributeError inside the dict literal: nothing is appended,
              \* the exception leaves run() and the behaviour is killed
              /\ current_event' = event_data
              /\ killed' = TRUE
              /\ last_step' = Step(STATE_IDLE, "exception")
              /\ UNCHANGED <<current_state, goals, fsm_trace, clock>>
         ELSE /\ current_event' = event_data
              /\ fsm_trace' = Append(fsm_trace,
                   [state |-> STATE_IDLE, timestamp |-> clock,
                    action |-> "Received disaster alert",
                    event_id |-> event_data.event_id])
              /\ clock' = clock + 1
              /\ current_state' = STATE_ANALYZING
              /\ last_step' = Step(STATE_IDLE, "transition")
              /\ UNCHANGED <<killed, goals>>
  /\ UNCHANGED <<delivered, resp_pc, pending_goals, resp_i>>

\* IdleState.run, receive returned a message
IdleReceive ==
  /\ ~killed
  /\ current_state = STATE_IDLE
  /\ mailbox # << >>
  /\ mailbox' = Tail(mailbox)
  /\ LET parsed == json_loads(Head(mailbox))
         event_data == parsed.value
     IN  IF parsed.raised = "JSONDecodeError"
         THEN \* except json.JSONDecodeError: set_next_state(STATE_IDLE)
              /\ current_state' = STATE_IDLE
              /\ last_step' = Step(STATE_IDLE, "parse_error")
              /\ UNCHANGED <<killed, current_event, goals, fsm_trace, clock>>
         ELSE IF event_data.pytype # "dict"
         THEN \* current_event is assigned, then event_data.get raises
              \* AttributeError inside the dict literal: nothing is appended,
              \* the exception leaves run() and the behaviour is killed
              /\ current_event' = event_data
              /\ killed' = TRUE
              /\ last_step' = Step(STATE_IDLE, "exception")
              /\ UNCHANGED <<current_state, goals, fsm_trace, clock>>
         ELSE /\ current_event' = event_data
              /\ fsm_trace' = Append(fsm_trace,
                   [state |-> STATE_IDLE, timestamp |-> clock,
                    action |-> "Received disaster alert",
                    event_id |-> event_data.event_id])
              /\ clock' = clock + 1
              /\ current_state' = STATE_ANALYZING
              /\ last_step' = Step(STATE_IDLE, "transition")
              /\ UNCHANGED <<killed, goals>>
  /\ UNCHANGED <<delivered, resp_pc, pending_goals, resp_i>>

\* Analyzing that leaves its assessment goal active
Analyzing_m ==
  /\ ~killed
  /\ current_state = STATE_ANALYZING
  /\ LET severity == get_severity(current_event)
         goal == Goal(Len(goals) + 1, ASSESS_SITUATION, 5, "active", clock)
     IN  /\ goals' = Append(goals, goal)
         /\ fsm_trace' = Append(fsm_trace,
              [state |-> STATE_ANALYZING, timestamp |-> clock + 2,
               action |-> "Completed situation assessment",
               severity |-> severity])
  /\ clock' = clock + 3
  /\ current_state' = STATE_PLANNING
  /\ last_step' = Step(STATE_ANALYZING, "transition")
  /\ UNCHANGED <<killed, current_event, mailbox, delivered, resp_pc,
                 pending_goals, resp_i>>

\* AnalyzingState.run
Analyzing ==
  /\ ~killed
  /\ current_state = STATE_ANALYZING
  /\ LET severity == get_severity(current_event)
         goal == Goal(Len(goals) + 1, ASSESS_SITUATION, 5, "active", clock)
         done == [goal EXCEPT !.status = "completed",
                              !.completed_at = clock + 1]
     IN  /\ goals' = Append(goals, done)
         /\ fsm_trace' = Append(fsm_trace,
              [state |-> STATE_ANALYZING, timestamp |-> clock + 2,
               action |-> "Completed situation assessment",
               severity |-> severity])
  /\ clock' = clock + 3
  /\ current_state' = STATE_PLANNING
  /\ last_step' = Step(STATE_ANALYZING, "transition")
  /\ UNCHANGED <<killed, current_event, mailbox, delivered, resp_pc,
                 pending_goals, resp_i>>

\* Planning that starts a fresh goal list for the cycle
Planning_m ==
  /\ ~killed
  /\ current_state = STATE_PLANNING
  /\ LET severity == get_severity(current_event)
     IN  IF severity.pytype # "int"
         THEN /\ killed' = TRUE
              /\ last_step' = Step(STATE_PLANNING, "exception")
              /\ UNCHANGED <<current_state, goals, fsm_trace, clock>>
         ELSE LET response_goals ==
                    _generate_response_goals(severity.val, Len(goals), clock)
              IN  /\ goals' = response_goals
                  /\ fsm_trace' = Append(fsm_trace,
                       [state |-> STATE_PLANNING,
                        timestamp |-> clock + Len(response_goals),
                        action |-> "Response plan created",
                        goals_count |-> Len(response_goals)])
                  /\ clock' = clock + Len(response_goals) + 1
                  /\ current_state' = STATE_RESPONDING
                  /\ last_step' = Step(STATE_PLANNING, "transition")
                  /\ UNCHANGED killed
  /\ UNCHANGED <<current_event, mailbox, delivered, resp_pc, pending_goals,
                 resp_i>>

\* PlanningState.run
Planning ==
  /\ ~killed
  /\ current_state = STATE_PLANNING
  /\ LET severity == get_severity(current_event)
     IN  IF severity.pytype # "int"
         THEN \* severity >= 3 raises TypeError in _generate_response_goals
              /\ killed' = TRUE
              /\ last_step' = Step(STATE_PLANNING, "exception")
              /\ UNCHANGED <<current_state, goals, fsm_trace, clock>>
         ELSE LET response_goals ==
                    _generate_response_goals(severity.val, Len(goals), clock)
              IN  /\ goals' = goals \o response_goals
                  /\ fsm_trace' = Append(fsm_trace,
                       [state |-> STATE_PLANNING,
                        timestamp |-> clock + Len(response_goals),
                        action |-> "Response plan created",
                        goals_count |-> Len(response_goals)])
                  /\ clock' = clock + Len(response_goals) + 1
                  /\ current_state' = STATE_RESPONDING
                  /\ last_step' = Step(STATE_PLANNING, "transition")
                  /\ UNCHANGED killed
  /\ UNCHANGED <<current_event, mailbox, delivered, resp_pc, pending_goals,
                 resp_i>>

\* RespondingSelect that leaves the goal of lowest priority out
RespondingSelect_m ==
  /\ ~killed
  /\ current_state = STATE_RESPONDING
  /\ resp_pc = "select"
  /\ LET sorted ==
           SortByPriorityDesc(IndicesWithStatus(goals, "pending", 1), goals)
     IN  pending_goals' = SubSeq(sorted, 1, Len(sorted) - 1)
  /\ resp_i' = 1
  /\ resp_pc' = "execute"
  /\ last_step' = Step(STATE_RESPONDING, "running")
  /\ UNCHANGED <<current_state, killed, current_event, goals, fsm_trace,
                 mailbox, delivered, clock>>

\* RespondingState.run up to the first suspension: select and sort the
\* pending goals
RespondingSelect ==
  /\ ~killed
  /\ current_state = STATE_RESPONDING
  /\ resp_pc = "select"
  /\ pending_goals' =
       SortByPriorityDesc(IndicesWithStatus(goals, "pending", 1), goals)
  /\ resp_i' = 1
  /\ resp_pc' = "execute"
  /\ last_step' = Step(STATE_RESPONDING, "running")
  /\ UNCHANGED <<current_state, killed, current_event, goals, fsm_trace,
                 mailbox, delivered, clock>>

\* RespondingExecute that marks the goal failed
RespondingExecute_m ==
  /\ ~killed
  /\ current_state = STATE_RESPONDING
  /\ resp_pc = "execute"
  /\ resp_i <= Len(pending_goals)
  /\ goals' = [goals EXCEPT ![pending_goals[resp_i]].status = "failed",
                            ![pending_goals[resp_i]].completed_at = clock]
  /\ clock' = clock + 1
  /\ resp_i' = resp_i + 1
  /\ last_step' = Step(STATE_RESPONDING, "running")
  /\ UNCHANGED <<current_state, killed, current_event, fsm_trace, mailbox,
                 delivered, resp_pc, pending_goals>>

\* RespondingState.run, one iteration of "for goal in pending_goals" after
\* its asyncio.sleep(0.5)
RespondingExecute ==
  /\ ~killed
  /\ current_state = STATE_RESPONDING
  /\ resp_pc = "execute"
  /\ resp_i <= Len(pending_goals)
  /\ goals' = [goals EXCEPT ![pending_goals[resp_i]].status = "completed",
                            ![pending_goals[resp_i]].completed_at = clock]
  /\ clock' = clock + 1
  /\ resp_i' = resp_i + 1
  /\ last_step' = Step(STATE_RESPONDING, "running")
  /\ UNCHANGED <<current_state, killed, current_event, fsm_trace, mailbox,
                 delivered, resp_pc, pending_goals>>

\* RespondingFinish that waits for a message before it leaves RESPONDING
RespondingFinish_m ==
  /\ ~killed
  /\ current_state = STATE_RESPONDING
  /\ resp_pc = "execute"
  /\ resp_i > Len(pending_goals)
  /\ mailbox # << >>
  /\ mailbox' = Tail(mailbox)
  /\ fsm_trace' = Append(fsm_trace,
       [state |-> STATE_RESPONDING, timestamp |-> clock,
        action |-> "Response actions executed",
        goals_completed |-> Len(pending_goals)])
  /\ clock' = clock + 1
  /\ current_state' = STATE_MONITORING
  /\ resp_pc' = "select"
  /\ pending_goals' = << >>
  /\ resp_i' = 1
  /\ last_step' = Step(STATE_RESPONDING, "transition")
  /\ UNCHANGED <<killed, current_event, goals, delivered>>

\* RespondingState.run after the loop
RespondingFinish ==
  /\ ~killed
  /\ current_state = STATE_RESPONDING
  /\ resp_pc = "execute"
  /\ resp_i > Len(pending_goals)
  /\ fsm_trace' = Append(fsm_trace,
       [state |-> STATE_RESPONDING, timestamp |-> clock,
        action |-> "Response actions executed",
        goals_completed |-> Len(pending_goals)])
  /\ clock' = clock + 1
  /\ current_state' = STATE_MONITORING
  /\ resp_pc' = "select"
  /\ pending_goals' = << >>
  /\ resp_i' = 1
  /\ last_step' = Step(STATE_RESPONDING, "transition")
  /\ UNCHANGED <<killed, current_event, goals, mailbox, delivered>>

\* Monitoring that returns to IDLE instead of going to COMPLETED
Monitoring_m ==
  /\ ~killed
  /\ current_state = STATE_MONITORING
  /\ LET total_goals == Len(goals)
         completed_goals == Len(IndicesWithStatus(goals, "completed", 1))
     IN  IF total_goals = 0
         THEN \* completed_goals/total_goals raises ZeroDivisionError
              /\ killed' = TRUE
              /\ last_step' = Step(STATE_MONITORING, "exception")
              /\ UNCHANGED <<current_state, fsm_trace, clock>>
         ELSE /\ fsm_trace' = Append(fsm_trace,
                   [state |-> STATE_MONITORING, timestamp |-> clock,
                    action |-> "Recovery monitoring completed",
                    goals_completed |-> completed_goals,
                    total_goals |-> total_goals])
              /\ clock' = clock + 1
              /\ current_state' = STATE_IDLE
              /\ last_step' = Step(STATE_MONITORING, "transition")
              /\ UNCHANGED killed
  /\ UNCHANGED <<current_event, goals, mailbox, delivered, resp_pc,
                 pending_goals, resp_i>>

\* MonitoringState.run
Monitoring ==
  /\ ~killed
  /\ current_state = STATE_MONITORING
  /\ LET total_goals == Len(goals)
         completed_goals == Len(IndicesWithStatus(goals, "completed", 1))
     IN  IF total_goals = 0
         THEN \* completed_goals/total_goals raises ZeroDivisionError
              /\ killed' = TRUE
              /\ last_step' = Step(STATE_MONITORING, "exception")
              /\ UNCHANGED <<current_state, fsm_trace, clock>>
         ELSE /\ fsm_trace' = Append(fsm_trace,
                   [state |-> STATE_MONITORING, timestamp |-> clock,
                    action |-> "Recovery monitoring completed",
                    goals_completed |-> completed_goals,
                    total_goals |-> total_goals])
              /\ clock' = clock + 1
              /\ current_state' = STATE_COMPLETED
              /\ last_step' = Step(STATE_MONITORING, "transition")
              /\ UNCHANGED killed
  /\ UNCHANGED <<current_event, goals, mailbox, delivered, resp_pc,
                 pending_goals, resp_i>>

\* Completed that forgets to append its trace entry
Completed_m ==
  /\ ~killed
  /\ current_state = STATE_COMPLETED
  /\ fsm_trace' = fsm_trace
  /\ clock' = clock + 1
  /\ current_event' = None
  /\ current_state' = STATE_IDLE
  /\ last_step' = Step(STATE_COMPLETED, "transition")
  /\ UNCHANGED <<killed, goals, mailbox, delivered, resp_pc, pending_goals,
                 resp_i>>

\* CompletedState.run
Completed ==
  /\ ~killed
  /\ current_state = STATE_COMPLETED
  /\ fsm_trace' = Append(fsm_trace,
       [state |-> STATE_COMPLETED, timestamp |-> clock,
        action |-> "Response cycle completed",
        event_id |-> current_event.event_id])
  /\ clock' = clock + 1
  /\ current_event' = None
  /\ current_state' = STATE_IDLE
  /\ last_step' = Step(STATE_COMPLETED, "transition")
  /\ UNCHANGED <<killed, goals, mailbox, delivered, resp_pc, pending_goals,
                 resp_i>>

NextFSM ==
  \/ Deliver /\ UNCHANGED <<acl_vars, env_vars>>
  \/ IdleTimeout /\ UNCHANGED <<acl_vars, env_vars>>
  \/ IdleReceive /\ UNCHANGED <<acl_vars, env_vars>>
  \/ Analyzing /\ UNCHANGED <<acl_vars, env_vars>>
  \/ Planning /\ UNCHANGED <<acl_vars, env_vars>>
  \/ RespondingSelect /\ UNCHANGED <<acl_vars, env_vars>>
  \/ RespondingExecute /\ UNCHANGED <<acl_vars, env_vars>>
  \/ RespondingFinish /\ UNCHANGED <<acl_vars, env_vars>>
  \/ Monitoring /\ UNCHANGED <<acl_vars, env_vars>>
  \/ Completed /\ UNCHANGED <<acl_vars, env_vars>>

\* ------------------------------------------------------------------------
\* Coordination protocol (lab4): constants
\* ------------------------------------------------------------------------
\* FIPAPerformative and MessageType values in use
INFORM == "inform"
REQUEST == "request"
DISASTER_ALERT == "disaster_alert"
RESOURCE_REQUEST == "resource_request"
RESOURCE_RESPONSE == "resource_response"

COMMAND == "command@localhost"

\* CommandCenterAgent.rescue_agents
rescue_agents == <<"rescue1@localhost", "rescue2@localhost">>

RescueAgents == {rescue_agents[k] : k \in 1..Len(rescue_agents)}

\* main() starts one SensorAgent, whose one-shot behaviour sends one alert
NumSensors == 1

\* jids of the sensor agents
SensorNames ==
  <<"sensor@localhost", "sensor2@localhost", "sensor3@localhost",
    "sensor4@localhost">>

Sensors == {SensorNames[k] : k \in 1..NumSensors}

\* random.randint(1000, 9999), cut to the first NumEventIds values
EventIdLo == 1000
EventIds == EventIdLo..(EventIdLo + NumEventIds - 1)

\* disaster_types of SensorAgent._generate_disaster
disaster_types == {"Earthquake", "Flood", "Fire", "Hurricane"}

\* severity_levels of SensorAgent._generate_disaster
severity_levels ==
  { <<1, "MINIMAL">>, <<2, "LOW">>, <<3, "MODERATE">>, <<4, "HIGH">>,
    <<5, "CRITICAL">> }

\* ranges of the initial pool, random.randint(lo, hi)
TeamsLo == 3
TeamsHi == 8
MedicalLo == 2
MedicalHi == 5
EquipmentLo == 5
EquipmentHi == 15

\* resource dictionaries
Resources(t, m, e) == [rescue_teams |-> t, medical_units |-> m, equipment |-> e]

NoResources == Resources(0, 0, 0)

\* Message bodies are JSON objects of three shapes; the model gives them one
\* record shape and leaves the keys a shape does not have at "" / 0.
Body(eid, type, sev, sevname, agent, status, res) ==
  [event_id |-> eid, disaster_type |-> type, severity |-> sev,
   severity_name |-> sevname, agent_id |-> agent, status |-> status,
   resources |-> res]

\* spade Message with its metadata
Message(to, sender, perf, mtype, conv, body) ==
  [to |-> to, sender |-> sender, performative |-> perf,
   message_type |-> mtype, conversation_id |-> conv, body |-> body]

NoMessage ==
  Message("", "", "", "", 0, Body(0, "", 0, "", "", "", NoResources))

\* ACLMessageLog(...) (the timestamp is left out: the position in the log is
\* the order of the entries)
ACLMessageLog(sender, receiver, perf, mtype, content, conv) ==
  [sender |-> sender, receiver |-> receiver, performative |-> perf,
   message_type |-> mtype, content |-> content, conversation_id |-> conv]

\* the log entry every behaviour writes for a message it received
ReceivedLog(msg, jid) ==
  ACLMessageLog(msg.sender, jid, msg.performative, msg.message_type,
                msg.body, msg.conversation_id)

\* min(a, b)
min(a, b) == IF a <= b THEN a ELSE b

\* resources_needed with the medical and equipment multipliers swapped
resources_needed_m(severity) ==
  Resources(severity * 2, severity * 3, severity * 1)

\* _request_rescue_resources: resources_needed
resources_needed(severity) ==
  Resources(severity * 2, severity * 1, severity * 3)

\* _request_rescue_resources: the REQUEST built for one rescue agent
ResourceRequest(rescue_agent, data) ==
  Message(rescue_agent, COMMAND, REQUEST, RESOURCE_REQUEST, data.event_id,
          Body(data.event_id, data.disaster_type, data.severity, "", "", "",
               resources_needed(data.severity)))

\* available without the min() clamp on the equipment
available_m(requested, held) ==
  Resources(min(requested.rescue_teams, held.rescue_teams),
            min(requested.medical_units, held.medical_units),
            requested.equipment)

\* _handle_resource_request: available = min(requested, held) per resource
available(requested, held) ==
  Resources(min(requested.rescue_teams, held.rescue_teams),
            min(requested.medical_units, held.medical_units),
            min(requested.equipment, held.equipment))

\* decrement that adds the granted amounts to the pool
decrement_m(held, avail) ==
  Resources(held.rescue_teams + avail.rescue_teams,
            held.medical_units + avail.medical_units,
            held.equipment + avail.equipment)

\* _handle_resource_request: self.agent.available_resources[key] -= available[key]
decrement(held, avail) ==
  Resources(held.rescue_teams - avail.rescue_teams,
            held.medical_units - avail.medical_units,
            held.equipment - avail.equipment)

\* ResourceResponse addressed to the rescue agent itself
ResourceResponse_m(r, msg, avail) ==
  Message(r, r, INFORM, RESOURCE_RESPONSE, msg.body.event_id,
          Body(msg.body.event_id, "", 0, "", r, "resources_allocated", avail))

\* _handle_resource_request: the INFORM response
ResourceResponse(r, msg, avail) ==
  Message(msg.sender, r, INFORM, RESOURCE_RESPONSE, msg.body.event_id,
          Body(msg.body.event_id, "", 0, "", r, "resources_allocated", avail))

\* messages in flight that a behaviour of agent `to` with the given template
\* can receive
Receivable(to, perf, mtype) ==
  { m \in BagToSet(net) :
      m.to = to /\ m.performative = perf /\ m.message_type = mtype }

\* number of copies in bag B of the messages of set S
RECURSIVE SumCopies(_, _)
SumCopies(B, S) ==
  IF S = {} THEN 0
  ELSE LET m == CHOOSE x \in S : TRUE
       IN  CopiesIn(m, B) + SumCopies(B, S \ {m})

\* Behaviour.send(msg): the message is in flight (and in the history)
send(msg) ==
  /\ net' = net (+) SetToBag({msg})
  /\ sent' = sent (+) SetToBag({msg})

\* a message is received and, in the same step, another one is sent
receive_and_send(got, msg) ==
  /\ net' = (net (+) SetToBag({msg})) (-) SetToBag({got})
  /\ sent' = sent (+) SetToBag({msg})

\* Behaviour.receive returned message got
receive(got) ==
  /\ net' = net (-) SetToBag({got})
  /\ UNCHANGED sent

\* ------------------------------------------------------------------------
\* Coordination protocol: initial state (the four setup methods)
\* ------------------------------------------------------------------------
\* the four setup methods, for the given sensor agents and with each pool
\* drawn from pools
ACLInitFrom(sensors, pools) ==
  /\ net = EmptyBag
  /\ sent = EmptyBag
  /\ message_log = [a \in sensors \cup {COMMAND} \cup RescueAgents |-> << >>]
  /\ available_resources \in [RescueAgents -> pools]
  /\ sensor_pc = [s \in sensors |-> "start"]
  /\ sensor_disaster = [s \in sensors |-> NoMessage.body]
  /\ alert_pc = "receive"
  /\ alert_i = 0
  /\ disaster_data = NoMessage.body
  /\ rescue_pc = [r \in RescueAgents |-> "receive"]
  /\ rescue_msg = [r \in RescueAgents |-> NoMessage]
  /\ rescue_response = [r \in RescueAgents |-> NoMessage]

\* the pools the model draws: each counter at an end of its randint range
CornerPools ==
  { Resources(t, m, e) : t \in {TeamsLo, TeamsHi},
                         m \in {MedicalLo, MedicalHi},
                         e \in {EquipmentLo, EquipmentHi} }

ACLInitWith(sensors) == ACLInitFrom(sensors, CornerPools)

ACLInit == ACLInitWith(Sensors)

\* every counter at its lowest, or every counter at its highest value
ExtremePools ==
  { Resources(TeamsLo, MedicalLo, EquipmentLo),
    Resources(TeamsHi, MedicalHi, EquipmentHi) }

\* the lab4 agents are not started
ACLOff ==
  /\ net = EmptyBag
  /\ sent = EmptyBag
  /\ message_log = << >>
  /\ available_resources = << >>
  /\ sensor_pc = << >>
  /\ sensor_disaster = << >>
  /\ alert_pc = "off"
  /\ alert_i = 0
  /\ disaster_data = NoMessage.body
  /\ rescue_pc = << >>
  /\ rescue_msg = << >>
  /\ rescue_response = << >>

\* ------------------------------------------------------------------------
\* Coordination protocol: actions.  An action runs a behaviour from one
\* suspension point (receive, sleep, send) to the next.  A run() whose
\* receive times out changes nothing and is a stuttering step.
\* ------------------------------------------------------------------------
\* DetectDisasterBehaviour.run after its sleep: generate and send the alert
SensorDetect(s) ==
  /\ sensor_pc[s] = "start"
  /\ \E eid \in EventIds, type \in disaster_types, sl \in severity_levels :
       LET disaster == Body(eid, type, sl[1], sl[2], "", "", NoResources)
       IN  /\ sensor_disaster' = [sensor_disaster EXCEPT ![s] = disaster]
           /\ send(Message(COMMAND, s, INFORM, DISASTER_ALERT, eid,
                           disaster))
  /\ sensor_pc' = [sensor_pc EXCEPT ![s] = "sent"]
  /\ UNCHANGED <<message_log, available_resources, alert_pc, alert_i,
                 disaster_data, rescue_pc, rescue_msg, rescue_response>>

\* DetectDisasterBehaviour.run after send: log the outgoing alert
SensorLog(s) ==
  /\ sensor_pc[s] = "sent"
  /\ message_log' = [message_log EXCEPT ![s] =
       Append(@, ACLMessageLog(s, COMMAND, INFORM, DISASTER_ALERT,
                               sensor_disaster[s],
                               sensor_disaster[s].event_id))]
  /\ sensor_pc' = [sensor_pc EXCEPT ![s] = "done"]
  /\ UNCHANGED <<net, sent, available_resources, sensor_disaster, alert_pc,
                 alert_i, disaster_data, rescue_pc, rescue_msg,
                 rescue_response>>

\* AlertReceive in which the coordinator itself takes the needed resources
\* out of the pool of the first rescue agent
AlertReceive_m ==
  /\ alert_pc = "receive"
  /\ \E msg \in Receivable(COMMAND, INFORM, DISASTER_ALERT) :
       /\ message_log' = [message_log EXCEPT ![COMMAND] =
            Append(@, ReceivedLog(msg, COMMAND))]
       /\ disaster_data' = msg.body
       /\ available_resources' =
            [available_resources EXCEPT ![rescue_agents[1]] =
               decrement(@, available(resources_needed(msg.body.severity), @))]
       /\ receive_and_send(msg, ResourceRequest(rescue_agents[1], msg.body))
       /\ alert_pc' = "sent"
       /\ alert_i' = 1
  /\ UNCHANGED <<sensor_pc, sensor_disaster, rescue_pc, rescue_msg,
                 rescue_response>>

\* ReceiveAlertBehaviour.run: receive an alert, log it, and run
\* _request_rescue_resources up to the first send
AlertReceive ==
  /\ alert_pc = "receive"
  /\ \E msg \in Receivable(COMMAND, INFORM, DISASTER_ALERT) :
       /\ message_log' = [message_log EXCEPT ![COMMAND] =
            Append(@, ReceivedLog(msg, COMMAND))]
       /\ disaster_data' = msg.body
       /\ IF Len(rescue_agents) = 0
          THEN /\ receive(msg)
               /\ UNCHANGED <<alert_pc, alert_i>>
          ELSE /\ receive_and_send(msg,
                    ResourceRequest(rescue_agents[1], msg.body))
               /\ alert_pc' = "sent"
               /\ alert_i' = 1
  /\ UNCHANGED <<available_resources, sensor_pc, sensor_disaster, rescue_pc,
                 rescue_msg, rescue_response>>

\* AlertContinue whose loop stops one rescue agent early
AlertContinue_m ==
  /\ alert_pc = "sent"
  /\ message_log' = [message_log EXCEPT ![COMMAND] =
       Append(@, ACLMessageLog(COMMAND, rescue_agents[alert_i], REQUEST,
                RESOURCE_REQUEST,
                ResourceRequest(rescue_agents[alert_i], disaster_data).body,
                disaster_data.event_id))]
  /\ IF alert_i < Len(rescue_agents) - 1
     THEN /\ send(ResourceRequest(rescue_agents[alert_i + 1], disaster_data))
          /\ alert_i' = alert_i + 1
          /\ UNCHANGED alert_pc
     ELSE /\ alert_pc' = "receive"
          /\ UNCHANGED <<net, sent, alert_i>>
  /\ UNCHANGED <<available_resources, sensor_pc, sensor_disaster,
                 disaster_data, rescue_pc, rescue_msg, rescue_response>>

\* _request_rescue_resources after a send: log the request, then send the
\* next one or return to receive
AlertContinue ==
  /\ alert_pc = "sent"
  /\ message_log' = [message_log EXCEPT ![COMMAND] =
       Append(@, ACLMessageLog(COMMAND, rescue_agents[alert_i], REQUEST,
                RESOURCE_REQUEST,
                ResourceRequest(rescue_agents[alert_i], disaster_data).body,
                disaster_data.event_id))]
  /\ IF alert_i < Len(rescue_agents)
     THEN /\ send(ResourceRequest(rescue_agents[alert_i + 1], disaster_data))
          /\ alert_i' = alert_i + 1
          /\ UNCHANGED alert_pc
     ELSE /\ alert_pc' = "receive"
          /\ UNCHANGED <<net, sent, alert_i>>
  /\ UNCHANGED <<available_resources, sensor_pc, sensor_disaster,
                 disaster_data, rescue_pc, rescue_msg, rescue_response>>

\* ResponseReceiveOf that takes the responses in flight in the order of
\* rescue_agents
ResponseReceiveOf_m(msg) ==
  /\ msg \in Receivable(COMMAND, INFORM, RESOURCE_RESPONSE)
  /\ \A other \in Receivable(COMMAND, INFORM, RESOURCE_RESPONSE) :
       \A i \in 1..Len(rescue_agents) : \A j \in 1..Len(rescue_agents) :
         (rescue_agents[i] = other.sender /\ rescue_agents[j] = msg.sender)
           => j <= i
  /\ receive(msg)
  /\ message_log' = [message_log EXCEPT ![COMMAND] =
       Append(@, ReceivedLog(msg, COMMAND))]
  /\ UNCHANGED <<available_resources, sensor_pc, sensor_disaster, alert_pc,
                 alert_i, disaster_data, rescue_pc, rescue_msg,
                 rescue_response>>

\* ReceiveResponseBehaviour.run when receive returns msg: log the response
ResponseReceiveOf(msg) ==
  /\ msg \in Receivable(COMMAND, INFORM, RESOURCE_RESPONSE)
  /\ receive(msg)
  /\ message_log' = [message_log EXCEPT ![COMMAND] =
       Append(@, ReceivedLog(msg, COMMAND))]
  /\ UNCHANGED <<available_resources, sensor_pc, sensor_disaster, alert_pc,
                 alert_i, disaster_data, rescue_pc, rescue_msg,
                 rescue_response>>

\* ResponseReceive that asks the responder again when its grant falls short
\* of the request
ResponseReceive_m ==
  \E msg \in Receivable(COMMAND, INFORM, RESOURCE_RESPONSE) :
    /\ message_log' = [message_log EXCEPT ![COMMAND] =
         Append(@, ReceivedLog(msg, COMMAND))]
    /\ IF msg.body.resources # resources_needed(disaster_data.severity)
       THEN receive_and_send(msg, ResourceRequest(msg.sender, disaster_data))
       ELSE receive(msg)
    /\ UNCHANGED <<available_resources, sensor_pc, sensor_disaster, alert_pc,
                   alert_i, disaster_data, rescue_pc, rescue_msg,
                   rescue_response>>

\* ReceiveResponseBehaviour.run: receive returns any of the responses in
\* flight; the transport keeps no order between different senders
ResponseReceive ==
  \E msg \in Receivable(COMMAND, INFORM, RESOURCE_RESPONSE) :
    ResponseReceiveOf(msg)

\* RequestReceive that takes the next request while the rescue agent is
\* still asleep over the one before
RequestReceive_m(r) ==
  /\ rescue_pc[r] \in {"receive", "sleep"}
  /\ \E msg \in Receivable(r, REQUEST, RESOURCE_REQUEST) :
       /\ receive(msg)
       /\ message_log' = [message_log EXCEPT ![r] =
            Append(@, ReceivedLog(msg, r))]
       /\ rescue_msg' = [rescue_msg EXCEPT ![r] = msg]
  /\ rescue_pc' = [rescue_pc EXCEPT ![r] = "sleep"]
  /\ UNCHANGED <<available_resources, sensor_pc, sensor_disaster, alert_pc,
                 alert_i, disaster_data, rescue_response>>

\* ReceiveRequestBehaviour.run: receive and log a request, enter
\* _handle_resource_request up to its sleep
RequestReceive(r) ==
  /\ rescue_pc[r] = "receive"
  /\ \E msg \in Receivable(r, REQUEST, RESOURCE_REQUEST) :
       /\ receive(msg)
       /\ message_log' = [message_log EXCEPT ![r] =
            Append(@, ReceivedLog(msg, r))]
       /\ rescue_msg' = [rescue_msg EXCEPT ![r] = msg]
  /\ rescue_pc' = [rescue_pc EXCEPT ![r] = "sleep"]
  /\ UNCHANGED <<available_resources, sensor_pc, sensor_disaster, alert_pc,
                 alert_i, disaster_data, rescue_response>>

\* RequestGrant with a shared ledger: what other rescue agents have already
\* granted for the event is taken off the requested amounts first
RequestGrant_m(r) ==
  /\ rescue_pc[r] = "sleep"
  /\ LET eid == rescue_msg[r].body.event_id
         others == {m \in BagToSet(sent) :
                      /\ m.message_type = RESOURCE_RESPONSE
                      /\ m.sender # r
                      /\ m.conversation_id = eid}
         asked == rescue_msg[r].body.resources
         requested ==
           IF others = {} THEN asked
           ELSE LET o == (CHOOSE m \in others : TRUE).body.resources
                IN  Resources(
                      asked.rescue_teams - min(asked.rescue_teams,
                                               o.rescue_teams),
                      asked.medical_units - min(asked.medical_units,
                                                o.medical_units),
                      asked.equipment - min(asked.equipment, o.equipment))
         avail == available(requested, available_resources[r])
         response == ResourceResponse(r, rescue_msg[r], avail)
     IN  /\ available_resources' = [available_resources EXCEPT ![r] =
              decrement(@, avail)]
         /\ rescue_response' = [rescue_response EXCEPT ![r] = response]
         /\ send(response)
  /\ rescue_pc' = [rescue_pc EXCEPT ![r] = "sent"]
  /\ UNCHANGED <<message_log, sensor_pc, sensor_disaster, alert_pc, alert_i,
                 disaster_data, rescue_msg>>

\* _handle_resource_request after the sleep: compute the grant, decrement the
\* pool and send the response
RequestGrant(r) ==
  /\ rescue_pc[r] = "sleep"
  /\ LET requested == rescue_msg[r].body.resources
         avail == available(requested, available_resources[r])
         response == ResourceResponse(r, rescue_msg[r], avail)
     IN  /\ available_resources' = [available_resources EXCEPT ![r] =
              decrement(@, avail)]
         /\ rescue_response' = [rescue_response EXCEPT ![r] = response]
         /\ send(response)
  /\ rescue_pc' = [rescue_pc EXCEPT ![r] = "sent"]
  /\ UNCHANGED <<message_log, sensor_pc, sensor_disaster, alert_pc, alert_i,
                 disaster_data, rescue_msg>>

\* RequestLog that writes the entry into the coordinator's log
RequestLog_m(r) ==
  /\ rescue_pc[r] = "sent"
  /\ message_log' = [message_log EXCEPT ![COMMAND] =
       Append(@, ACLMessageLog(r, rescue_msg[r].sender, INFORM,
                RESOURCE_RESPONSE, rescue_response[r].body,
                rescue_msg[r].body.event_id))]
  /\ rescue_pc' = [rescue_pc EXCEPT ![r] = "receive"]
  /\ UNCHANGED <<net, sent, available_resources, sensor_pc, sensor_disaster,
                 alert_pc, alert_i, disaster_data, rescue_msg,
                 rescue_response>>

\* _handle_resource_request after send: log the response
RequestLog(r) ==
  /\ rescue_pc[r] = "sent"
  /\ message_log' = [message_log EXCEPT ![r] =
       Append(@, ACLMessageLog(r, rescue_msg[r].sender, INFORM,
                RESOURCE_RESPONSE, rescue_response[r].body,
                rescue_msg[r].body.event_id))]
  /\ rescue_pc' = [rescue_pc EXCEPT ![r] = "receive"]
  /\ UNCHANGED <<net, sent, available_resources, sensor_pc, sensor_disaster,
                 alert_pc, alert_i, disaster_data, rescue_msg,
                 rescue_response>>

NextACL ==
  \/ \E s \in DOMAIN sensor_pc : SensorDetect(s) /\ UNCHANGED <<fsm_vars, env_vars>>
  \/ \E s \in DOMAIN sensor_pc : SensorLog(s) /\ UNCHANGED <<fsm_vars, env_vars>>
  \/ AlertReceive /\ UNCHANGED <<fsm_vars, env_vars>>
  \/ AlertContinue /\ UNCHANGED <<fsm_vars, env_vars>>
  \/ ResponseReceive /\ UNCHANGED <<fsm_vars, env_vars>>
  \/ \E r \in RescueAgents : RequestReceive(r) /\ UNCHANGED <<fsm_vars, env_vars>>
  \/ \E r \in RescueAgents : RequestGrant(r) /\ UNCHANGED <<fsm_vars, env_vars>>
  \/ \E r \in RescueAgents : RequestLog(r) /\ UNCHANGED <<fsm_vars, env_vars>>

\* ------------------------------------------------------------------------
\* Environment model (lab2): DisasterEnvironment
\* ------------------------------------------------------------------------
\* The float readings are kept in tenths (22.0 is 220); air_quality is an
\* int in the code and is kept as it is.
Scale == 10

\* DisasterType values
EARTHQUAKE == "Earthquake"
FLOOD == "Flood"
FIRE == "Fire"
HURRICANE == "Hurricane"
TORNADO == "Tornado"
TSUNAMI == "Tsunami"

DisasterType == {EARTHQUAKE, FLOOD, FIRE, HURRICANE, TORNADO, TSUNAMI}

\* lab2 SeverityLevel values
MINIMAL == 1
LOW == 2
MODERATE == 3
HIGH == 4
CRITICAL == 5

\* EnvironmentalCondition (without its timestamp)
EnvironmentalCondition(t, h, w, a, l, s) ==
  [temperature |-> t, humidity |-> h, wind_speed |-> w, air_quality |-> a,
   water_level |-> l, seismic_activity |-> s]

\* _initialize_conditions
_initialize_conditions ==
  EnvironmentalCondition(22 * Scale, 60 * Scale, 15 * Scale, 50, 2 * Scale, 0)

\* magnitudes around the band limits of _determine_earthquake_severity
QuakeMagnitudes == {44, 45, 54, 55, 64, 65, 74, 75, 80}

\* The snapshots an environment starts from: the one its constructor builds,
\* snapshots that updates lead to (next to the lower clamps, next to the
\* upper clamps, past the fire, flood and hurricane thresholds, exactly on
\* the thresholds), and snapshots a caller has put in current_conditions to
\* exercise the earthquake rule.
Snapshots ==
  { _initialize_conditions,
    EnvironmentalCondition(-95, 30, 10, 5, 3, 0),
    EnvironmentalCondition(440, 980, 1490, 495, 197, 20),
    EnvironmentalCondition(360, 190, 1210, 50, 101, 0),
    EnvironmentalCondition(350, 200, 1200, 50, 100, 40),
    EnvironmentalCondition(360, 190, 1210, 50, 101, 41) }
  \cup { [_initialize_conditions EXCEPT !.seismic_activity = m] :
           m \in QuakeMagnitudes }

\* The random draws of one update_conditions call: five deltas within
\* uniform(-2, 2), uniform(-5, 5), uniform(-3, 3), randint(-10, 10),
\* uniform(-0.5, 0.5) and the seismic reading drawn by uniform(0, 2).
Draws ==
  { EnvironmentalCondition(-20, -50, -30, -10, -5, 0),
    EnvironmentalCondition(20, 50, 30, 10, 5, 20),
    EnvironmentalCondition(0, 0, 0, 0, 0, 10),
    EnvironmentalCondition(20, -50, 30, 10, 5, 20),
    EnvironmentalCondition(3, -12, 7, -4, 1, 13) }

NoDraw == EnvironmentalCondition(0, 0, 0, 0, 0, 0)

\* the disaster types and severities the model lets random.choice pick
RollTypes == {EARTHQUAKE, TORNADO}
RollSeverities == {MINIMAL, CRITICAL}

\* outcome of the random roll of one check_for_disasters call: nothing
\* (random.random() >= 0.10) or a type and a severity
NoRoll == [hit |-> FALSE, disaster_type |-> "", severity |-> 0]

Rolls ==
  {NoRoll} \cup { [hit |-> TRUE, disaster_type |-> type, severity |-> sev] :
                    type \in RollTypes, sev \in RollSeverities }

\* max(lo, min(hi, x))
clamp(lo, hi, x) == IF x > hi THEN hi ELSE IF x < lo THEN lo ELSE x

\* update_conditions without the clamp of the water level
update_conditions_m(c, d) ==
  EnvironmentalCondition(
    clamp(-10 * Scale, 45 * Scale, c.temperature + d.temperature),
    clamp(0, 100 * Scale, c.humidity + d.humidity),
    clamp(0, 150 * Scale, c.wind_speed + d.wind_speed),
    clamp(0, 500, c.air_quality + d.air_quality),
    c.water_level + d.water_level,
    d.seismic_activity)

\* update_conditions: the snapshot after perturbing c by the draws d and
\* clamping; the seismic reading is replaced by its draw
update_conditions(c, d) ==
  EnvironmentalCondition(
    clamp(-10 * Scale, 45 * Scale, c.temperature + d.temperature),
    clamp(0, 100 * Scale, c.humidity + d.humidity),
    clamp(0, 150 * Scale, c.wind_speed + d.wind_speed),
    clamp(0, 500, c.air_quality + d.air_quality),
    clamp(0, 20 * Scale, c.water_level + d.water_level),
    d.seismic_activity)

\* _determine_earthquake_severity with 4.5 in the lower band
_determine_earthquake_severity_m(magnitude) ==
  IF magnitude <= 45 THEN MINIMAL
  ELSE IF magnitude < 55 THEN LOW
  ELSE IF magnitude < 65 THEN MODERATE
  ELSE IF magnitude < 75 THEN HIGH
  ELSE CRITICAL

\* _determine_earthquake_severity
_determine_earthquake_severity(magnitude) ==
  IF magnitude < 45 THEN MINIMAL
  ELSE IF magnitude < 55 THEN LOW
  ELSE IF magnitude < 65 THEN MODERATE
  ELSE IF magnitude < 75 THEN HIGH
  ELSE CRITICAL

\* _determine_flood_severity
_determine_flood_severity(water_level) ==
  IF water_level < 12 * Scale THEN MODERATE
  ELSE IF water_level < 15 * Scale THEN HIGH
  ELSE CRITICAL

\* _determine_fire_severity with 38 in the lower band
_determine_fire_severity_m(temperature) ==
  IF temperature <= 38 * Scale THEN LOW
  ELSE IF temperature < 42 * Scale THEN MODERATE
  ELSE HIGH

\* _determine_fire_severity
_determine_fire_severity(temperature) ==
  IF temperature < 38 * Scale THEN LOW
  ELSE IF temperature < 42 * Scale THEN MODERATE
  ELSE HIGH

\* _determine_hurricane_severity
_determine_hurricane_severity(wind_speed) ==
  IF wind_speed < 130 * Scale THEN MODERATE
  ELSE IF wind_speed < 140 * Scale THEN HIGH
  ELSE CRITICAL

\* f"EVENT-{n:04d}"
EventId(n) ==
  "EVENT-" \o (IF n < 10 THEN "000" ELSE IF n < 100 THEN "00"
               ELSE IF n < 1000 THEN "0" ELSE "") \o ToString(n)

\* DisasterEvent (location, timestamp, description and the random area,
\* casualties and cost are left out: nothing reads them)
DisasterEvent(id, type, sev) ==
  [event_id |-> id, disaster_type |-> type, severity |-> sev]

\* _create_disaster_event that does not advance the counter
_create_disaster_event_m(counter, type, sev) ==
  [counter |-> counter, event |-> DisasterEvent(EventId(counter), type, sev)]

\* _create_disaster_event: the counter after the call and the event made
_create_disaster_event(counter, type, sev) ==
  [counter |-> counter + 1,
   event |-> DisasterEvent(EventId(counter + 1), type, sev)]

\* FiredRules whose flood rule also fires on a water level of exactly 10.0
FiredRules_m(c, roll) ==
  (IF c.seismic_activity > 4 * Scale
   THEN << <<EARTHQUAKE,
             _determine_earthquake_severity(c.seismic_activity)>> >>
   ELSE << >>)
  \o (IF c.water_level >= 10 * Scale
      THEN << <<FLOOD, _determine_flood_severity(c.water_level)>> >>
      ELSE << >>)
  \o (IF c.temperature > 35 * Scale /\ c.humidity < 20 * Scale
      THEN << <<FIRE, _determine_fire_severity(c.temperature)>> >>
      ELSE << >>)
  \o (IF c.wind_speed > 120 * Scale
      THEN << <<HURRICANE, _determine_hurricane_severity(c.wind_speed)>> >>
      ELSE << >>)
  \o (IF roll.hit THEN << <<roll.disaster_type, roll.severity>> >>
      ELSE << >>)

\* check_for_disasters: the (type, severity) pairs of the rules that fire on
\* snapshot c, in the order of the code, followed by the random roll
FiredRules(c, roll) ==
  (IF c.seismic_activity > 4 * Scale
   THEN << <<EARTHQUAKE,
             _determine_earthquake_severity(c.seismic_activity)>> >>
   ELSE << >>)
  \o (IF c.water_level > 10 * Scale
      THEN << <<FLOOD, _determine_flood_severity(c.water_level)>> >>
      ELSE << >>)
  \o (IF c.temperature > 35 * Scale /\ c.humidity < 20 * Scale
      THEN << <<FIRE, _determine_fire_severity(c.temperature)>> >>
      ELSE << >>)
  \o (IF c.wind_speed > 120 * Scale
      THEN << <<HURRICANE, _determine_hurricane_severity(c.wind_speed)>> >>
      ELSE << >>)
  \o (IF roll.hit THEN << <<roll.disaster_type, roll.severity>> >>
      ELSE << >>)

\* check_for_disasters: the events created one after the other for the
\* fired rules, each by _create_disaster_event on the counter the previous
\* call left
RECURSIVE CreateAll(_, _)
CreateAll(counter, fired) ==
  IF fired = << >> THEN << >>
  ELSE LET made == _create_disaster_event(counter, Head(fired)[1],
                                          Head(fired)[2])
       IN  <<made.event>> \o CreateAll(made.counter, Tail(fired))

\* DisasterEnvironment.__init__, or an environment whose snapshot was set
EnvInit ==
  /\ current_conditions \in Snapshots
  /\ conditions_history = << >>
  /\ active_disasters = << >>
  /\ event_history = << >>
  /\ event_counter = 0
  /\ new_disasters = << >>
  /\ checks = 0
  /\ last_draw = NoDraw
  /\ env_last = "init"

\* no environment is built
EnvOff ==
  /\ current_conditions = _initialize_conditions
  /\ conditions_history = << >>
  /\ active_disasters = << >>
  /\ event_history = << >>
  /\ event_counter = 0
  /\ new_disasters = << >>
  /\ checks = 0
  /\ last_draw = NoDraw
  /\ env_last = "off"

\* Update that perturbs the seismic reading by its draw instead of replacing
\* it
Update_m ==
  /\ env_last # "off"
  /\ Len(conditions_history) < MaxUpdates
  /\ \E d \in Draws :
       /\ current_conditions' =
            [update_conditions(current_conditions, d) EXCEPT
               !.seismic_activity =
                  current_conditions.seismic_activity + d.seismic_activity]
       /\ last_draw' = d
  /\ conditions_history' = Append(conditions_history, current_conditions')
  /\ env_last' = "update"
  /\ UNCHANGED <<active_disasters, event_history, event_counter,
                 new_disasters, checks>>

\* update_conditions()
Update ==
  /\ env_last # "off"
  /\ Len(conditions_history) < MaxUpdates
  /\ \E d \in Draws :
       /\ current_conditions' = update_conditions(current_conditions, d)
       /\ last_draw' = d
  /\ conditions_history' = Append(conditions_history, current_conditions')
  /\ env_last' = "update"
  /\ UNCHANGED <<active_disasters, event_history, event_counter,
                 new_disasters, checks>>

\* append_events that keeps only the latest event of the list
append_events_m(list, created) ==
  (IF list = << >> THEN << >> ELSE <<list[Len(list)]>>) \o created

\* check_for_disasters: "for event in new_disasters: list.append(event)"
append_events(list, created) == list \o created

\* Check whose rules exclude one another: only the first one that fires
\* creates an event
Check_m ==
  /\ env_last # "off"
  /\ checks < MaxChecks
  /\ \E roll \in Rolls :
       LET fired == FiredRules(current_conditions, roll)
           created == CreateAll(event_counter,
                                SubSeq(fired, 1, min(1, Len(fired))))
       IN  /\ new_disasters' = created
           /\ event_counter' = event_counter + Len(created)
           /\ active_disasters' = append_events(active_disasters, created)
           /\ event_history' = append_events(event_history, created)
  /\ checks' = checks + 1
  /\ env_last' = "check"
  /\ UNCHANGED <<current_conditions, conditions_history, last_draw>>

\* check_for_disasters()
Check ==
  /\ env_last # "off"
  /\ checks < MaxChecks
  /\ \E roll \in Rolls :
       LET created == CreateAll(event_counter,
                                FiredRules(current_conditions, roll))
       IN  /\ new_disasters' = created
           /\ event_counter' = event_counter + Len(created)
           /\ active_disasters' = append_events(active_disasters, created)
           /\ event_history' = append_events(event_history, created)
  /\ checks' = checks + 1
  /\ env_last' = "check"
  /\ UNCHANGED <<current_conditions, conditions_history, last_draw>>

NextEnv ==
  \/ Update /\ UNCHANGED <<fsm_vars, acl_vars>>
  \/ Check /\ UNCHANGED <<fsm_vars, acl_vars>>

\* ------------------------------------------------------------------------
\* Specifications
\* ------------------------------------------------------------------------
\* the response agent alone
InitFSM == FSMInit /\ ACLOff /\ EnvOff

SpecFSM == InitFSM /\ [][NextFSM]_vars

\* The response agent under a fair scheduler: the event loop resumes the FSM
\* behaviour whenever its receive(timeout=5) or its asyncio.sleep has
\* returned, so a step of the behaviour that stays possible is eventually
\* taken.  Nothing obliges the transport to deliver another message.
FairFSM ==
  /\ WF_vars(IdleTimeout /\ UNCHANGED <<acl_vars, env_vars>>)
  /\ WF_vars(IdleReceive /\ UNCHANGED <<acl_vars, env_vars>>)
  /\ WF_vars(Analyzing /\ UNCHANGED <<acl_vars, env_vars>>)
  /\ WF_vars(Planning /\ UNCHANGED <<acl_vars, env_vars>>)
  /\ WF_vars(RespondingSelect /\ UNCHANGED <<acl_vars, env_vars>>)
  /\ WF_vars(RespondingExecute /\ UNCHANGED <<acl_vars, env_vars>>)
  /\ WF_vars(RespondingFinish /\ UNCHANGED <<acl_vars, env_vars>>)
  /\ WF_vars(Monitoring /\ UNCHANGED <<acl_vars, env_vars>>)
  /\ WF_vars(Completed /\ UNCHANGED <<acl_vars, env_vars>>)

SpecFSMFair == InitFSM /\ [][NextFSM]_vars /\ FairFSM

\* the coordination protocol alone: the response agent stays as set up
InitACL == FSMInit /\ ACLInit /\ EnvOff

SpecACL == InitACL /\ [][NextACL]_vars

\* The rescue agents under any stream of resource requests: the requests
\* the coordinator builds (any event id and severity, one disaster type) are
\* put in flight by InjectRequest instead of being raised by sensor alerts,
\* so that one rescue agent can be asked several times.  The responses stay
\* in flight: the coordinator's behaviours are not run.
InjectRequest ==
  /\ SumCopies(sent, {m \in BagToSet(sent) :
                        m.message_type = RESOURCE_REQUEST}) < MaxRequests
  /\ \E r \in RescueAgents, eid \in EventIds, sl \in severity_levels :
       send(ResourceRequest(r,
              Body(eid, "Flood", sl[1], sl[2], "", "", NoResources)))
  /\ UNCHANGED <<message_log, available_resources, sensor_pc, sensor_disaster,
                 alert_pc, alert_i, disaster_data, rescue_pc, rescue_msg,
                 rescue_response>>

NextRescue ==
  \/ InjectRequest /\ UNCHANGED <<fsm_vars, env_vars>>
  \/ \E r \in RescueAgents : RequestReceive(r) /\ UNCHANGED <<fsm_vars, env_vars>>
  \/ \E r \in RescueAgents : RequestGrant(r) /\ UNCHANGED <<fsm_vars, env_vars>>
  \/ \E r \in RescueAgents : RequestLog(r) /\ UNCHANGED <<fsm_vars, env_vars>>

InitRescue == FSMInit /\ ACLInitFrom({}, ExtremePools) /\ EnvOff

SpecRescue == InitRescue /\ [][NextRescue]_vars

\* The coordinator under any stream of alerts and responses.  The alerts a
\* sensor builds (any event id, the highest severity, one disaster type)
\* are put in flight by InjectAlert instead of being sent by one-shot sensor
\* agents, so that the coordinator can be alerted several times.  The
\* rescue agents are not run: InjectResponse answers a request in flight
\* with the response a rescue agent holding the largest pool builds for it,
\* at any time or never.
AlertSeverities == { <<5, "CRITICAL">> }

InjectAlert ==
  /\ SumCopies(sent, {m \in BagToSet(sent) :
                        m.message_type = DISASTER_ALERT}) < MaxAlerts
  /\ \E eid \in EventIds, sl \in AlertSeverities :
       send(Message(COMMAND, SensorNames[1], INFORM, DISASTER_ALERT, eid,
                    Body(eid, "Flood", sl[1], sl[2], "", "", NoResources)))
  /\ UNCHANGED <<message_log, available_resources, sensor_pc, sensor_disaster,
                 alert_pc, alert_i, disaster_data, rescue_pc, rescue_msg,
                 rescue_response>>

InjectResponse(r) ==
  /\ SumCopies(sent, {m \in BagToSet(sent) :
                        m.message_type = RESOURCE_RESPONSE}) < MaxResponses
  /\ \E msg \in Receivable(r, REQUEST, RESOURCE_REQUEST) :
       receive_and_send(msg,
         ResourceResponse(r, msg,
           available(msg.body.resources,
                     Resources(TeamsHi, MedicalHi, EquipmentHi))))
  /\ UNCHANGED <<message_log, available_resources, sensor_pc, sensor_disaster,
                 alert_pc, alert_i, disaster_data, rescue_pc, rescue_msg,
                 rescue_response>>

NextCoord ==
  \/ InjectAlert /\ UNCHANGED <<fsm_vars, env_vars>>
  \/ AlertReceive /\ UNCHANGED <<fsm_vars, env_vars>>
  \/ AlertContinue /\ UNCHANGED <<fsm_vars, env_vars>>
  \/ ResponseReceive /\ UNCHANGED <<fsm_vars, env_vars>>
  \/ \E r \in RescueAgents : InjectResponse(r) /\ UNCHANGED <<fsm_vars, env_vars>>

InitCoord ==
  /\ FSMInit
  /\ ACLInitFrom({}, {Resources(TeamsHi, MedicalHi, EquipmentHi)})
  /\ EnvOff

SpecCoord == InitCoord /\ [][NextCoord]_vars

\* the environment alone, under any sequence of update_conditions and
\* check_for_disasters calls
InitEnv == FSMInit /\ ACLOff /\ EnvInit

SpecEnv == InitEnv /\ [][NextEnv]_vars

\* ------------------------------------------------------------------------
\* Response agent: properties
\* ------------------------------------------------------------------------
\* the step is a step of the FSM behaviour (not a delivery by the transport)
FSMStep == last_step'.flip # last_step.flip

\* outcomes of a run() that called set_next_state
TransitionOutcomes == {"transition", "timeout", "parse_error"}

\* the order of the states in one response cycle
CycleOrder ==
  <<STATE_IDLE, STATE_ANALYZING, STATE_PLANNING, STATE_RESPONDING,
    STATE_MONITORING, STATE_COMPLETED>>

\* number of entries of the trace that name state st
RECURSIVE CountState(_, _)
CountState(tr, st) ==
  IF tr = << >> THEN 0
  ELSE (IF Head(tr).state = st THEN 1 ELSE 0) + CountState(Tail(tr), st)

C2_FullCycleTrace ==
  (last_step.state = STATE_COMPLETED /\ last_step.outcome = "transition")
    => LET n == Len(fsm_trace)
       IN  /\ current_state = STATE_IDLE
           /\ ~killed
           /\ current_event = None
           /\ n = 6 * CountState(fsm_trace, STATE_COMPLETED)
           /\ n >= 6
           /\ \A i \in 1..n : fsm_trace[i].state = CycleOrder[((i - 1) % 6) + 1]
           /\ fsm_trace[n - 5].event_id = fsm_trace[n].event_id

\* C2 witness: the first cycle, for an event of severity 3, has finished
C2_Witness ==
  /\ last_step.state = STATE_COMPLETED
  /\ last_step.outcome = "transition"
  /\ Len(fsm_trace) = 6
  /\ fsm_trace[2].severity = [pytype |-> "int", val |-> 3]

\* C3 as stated: every execution of a state that ends with a transition,
\* the IDLE self-loop included, appends exactly one entry naming the state,
\* and earlier entries are kept.
C3_EveryVisitTraced ==
  [][ /\ (FSMStep /\ last_step'.outcome \in TransitionOutcomes
            => /\ Len(fsm_trace') = Len(fsm_trace) + 1
               /\ fsm_trace'[Len(fsm_trace')].state = last_step'.state)
      /\ Len(fsm_trace') >= Len(fsm_trace)
      /\ SubSeq(fsm_trace', 1, Len(fsm_trace)) = fsm_trace
    ]_vars

\* C3 amended: every execution that ends with a transition to another state
\* appends exactly one entry naming the executed state; an IDLE execution
\* that ends with IDLE -> IDLE (timeout or undecodable payload) and every
\* other step append nothing; earlier entries are never changed or removed.
C3_LeavingVisitTraced ==
  [][ /\ (FSMStep /\ last_step'.outcome = "transition"
            => /\ Len(fsm_trace') = Len(fsm_trace) + 1
               /\ fsm_trace'[Len(fsm_trace')].state = last_step'.state
               /\ last_step'.state = current_state
               /\ current_state' # current_state)
      /\ (~(FSMStep /\ last_step'.outcome = "transition")
            => fsm_trace' = fsm_trace)
      /\ Len(fsm_trace') >= Len(fsm_trace)
      /\ SubSeq(fsm_trace', 1, Len(fsm_trace)) = fsm_trace
    ]_vars

\* C3 witness: IDLE looped on a timeout after a complete cycle was traced
C3_Witness ==
  /\ last_step.state = STATE_IDLE
  /\ last_step.outcome = "timeout"
  /\ Len(fsm_trace) = 6

\* the goal list the plan must hold for severity s, as (type, priority)
C4_Expected(s) ==
  IF s \in {1, 2}
  THEN << <<DEPLOY_RESOURCES, 5>>, <<EVACUATE_CIVILIANS, 5>>,
          <<MONITOR_RECOVERY, 2>> >>
  ELSE IF s = 3
  THEN << <<DEPLOY_RESOURCES, 5>>, <<EVACUATE_CIVILIANS, 5>>,
          <<PROVIDE_MEDICAL_AID, 4>>, <<MONITOR_RECOVERY, 2>> >>
  ELSE << <<DEPLOY_RESOURCES, 5>>, <<EVACUATE_CIVILIANS, 5>>,
          <<PROVIDE_MEDICAL_AID, 4>>, <<RESTORE_INFRASTRUCTURE, 3>>,
          <<MONITOR_RECOVERY, 2>> >>

\* C4: right after PLANNING ran for an event of severity s in 1..5, the goals
\* it appended (everything after the cycle's ASSESS_SITUATION goal) are
\* exactly the expected list for s, in order, all pending, and the count
\* recorded in the trace is 3, 4 or 5 accordingly.
C4_PlanningGoals ==
  (/\ last_step.state = STATE_PLANNING
   /\ last_step.outcome = "transition"
   /\ current_event.sev_type = "int"
   /\ current_event.severity \in SeverityLevel)
    => LET s == current_event.severity
           exp == C4_Expected(s)
           cnt == fsm_trace[Len(fsm_trace)].goals_count
           base == Len(goals) - cnt
       IN  /\ cnt = Len(exp)
           /\ cnt = (IF s <= 2 THEN 3 ELSE IF s = 3 THEN 4 ELSE 5)
           /\ base >= 1
           /\ goals[base].goal_type = ASSESS_SITUATION
           /\ \A k \in 1..cnt :
                /\ goals[base + k].goal_type = exp[k][1]
                /\ goals[base + k].priority = exp[k][2]
                /\ goals[base + k].status = "pending"

\* C4 witness: PLANNING has just planned for a severity-5 event
C4_Witness ==
  /\ last_step.state = STATE_PLANNING
  /\ last_step.outcome = "transition"
  /\ current_event.sev_type = "int"
  /\ current_event.severity = 5
  /\ Len(goals) = 6

\* RESPONDING: set of goals selected when the state was entered
SelectedGoals == {pending_goals[k] : k \in 1..Len(pending_goals)}

\* goal a was marked completed before goal b (b possibly not yet)
CompletedBefore(a, b) ==
  /\ goals[a].status = "completed"
  /\ \/ goals[b].status # "completed"
     \/ goals[a].completed_at < goals[b].completed_at

\* C5: while RESPONDING executes, the goals selected at entry are all the
\* goals that are or were pending; whenever one of them is completed before
\* another, it has a higher priority, or the same priority and an earlier
\* position in the goal list; and when RESPONDING leaves, every goal that
\* was pending at entry is completed.
C5_RespondingOrder ==
  /\ (current_state = STATE_RESPONDING /\ resp_pc = "execute")
       => /\ \A g \in 1..Len(goals) :
               goals[g].status = "pending" => g \in SelectedGoals
          /\ Len(pending_goals) = Cardinality(SelectedGoals)
          /\ \A a \in SelectedGoals : \A b \in SelectedGoals \ {a} :
               CompletedBefore(a, b)
                 => \/ goals[a].priority > goals[b].priority
                    \/ (goals[a].priority = goals[b].priority /\ a < b)
  /\ (last_step.state = STATE_RESPONDING /\ last_step.outcome = "transition")
       => /\ \A g \in 1..Len(goals) : goals[g].status = "completed"
          /\ fsm_trace[Len(fsm_trace)].goals_completed >= 3

\* C5 witness: RESPONDING has completed the two priority-5 goals of a
\* five-goal plan and has three goals left
C5_Witness ==
  /\ current_state = STATE_RESPONDING
  /\ resp_pc = "execute"
  /\ Len(pending_goals) = 5
  /\ resp_i = 3
  /\ goals[pending_goals[1]].status = "completed"
  /\ goals[pending_goals[2]].status = "completed"
  /\ goals[pending_goals[3]].status = "pending"

\* C6 as stated: an IDLE step that consumes a body that is not a JSON object
\* (not JSON, empty, or JSON of another type) discards it, leaves the machine
\* running and in IDLE with no current event.
C6_MalformedDiscarded ==
  [][ (/\ FSMStep
       /\ current_state = STATE_IDLE
       /\ mailbox # << >>
       /\ Head(mailbox).kind # "object")
        => /\ current_state' = STATE_IDLE
           /\ ~killed'
           /\ current_event' = None
           /\ mailbox' = Tail(mailbox)
    ]_vars

\* C7: an IDLE step whose receive timed out, or which received a body that
\* json.loads cannot decode, stays in IDLE and changes neither the current
\* event nor the goal list nor the trace.
C7_IdleLoopFrame ==
  [][ (/\ FSMStep
       /\ current_state = STATE_IDLE
       /\ \/ mailbox = << >>
          \/ Head(mailbox).kind \in {"text", "empty"})
        => /\ current_state' = STATE_IDLE
           /\ ~killed'
           /\ last_step'.outcome \in {"timeout", "parse_error"}
           /\ UNCHANGED <<current_event, goals, fsm_trace>>
    ]_vars

\* C7 witness: an undecodable body was consumed after a full cycle, with the
\* goals and the trace of that cycle in place
C7_Witness ==
  /\ last_step.state = STATE_IDLE
  /\ last_step.outcome = "parse_error"
  /\ Len(fsm_trace) = 6
  /\ Len(goals) >= 4


\* the status changes the claim allows for an existing goal
C15_LegalChanges ==
  { <<"pending", "active">>, <<"active", "completed">>,
    <<"active", "failed">> }

\* C15 as stated: every goal appears with status pending, and the status of
\* an existing goal changes only from pending to active or from active to
\* completed or failed.
C15_LegalPathOnly ==
  [][ /\ Len(goals') >= Len(goals)
      /\ \A i \in 1..Len(goals') :
           IF i <= Len(goals)
           THEN \/ goals'[i].status = goals[i].status
                \/ <<goals[i].status, goals'[i].status>> \in C15_LegalChanges
           ELSE goals'[i].status = "pending"
    ]_vars

\* C15 amended: a goal appears either pending (the goals PLANNING creates)
\* or already completed (the ASSESS_SITUATION goal, which ANALYZING creates
\* active and completes within the same step); the only change of an
\* existing goal is pending -> completed, made by RESPONDING, which also
\* sets the completion time; no goal is ever seen active or failed, no goal
\* is removed and a completed goal never changes again.
C15_StatusSteps ==
  [][ /\ Len(goals') >= Len(goals)
      /\ \A i \in 1..Len(goals') :
           /\ goals'[i].status \in {"pending", "completed"}
           /\ IF i <= Len(goals)
              THEN \/ goals'[i] = goals[i]
                   \/ /\ goals[i].status = "pending"
                      /\ goals'[i].status = "completed"
                      /\ goals'[i].completed_at # NoTime
                      /\ goals'[i] = [goals[i] EXCEPT
                                        !.status = "completed",
                                        !.completed_at = goals'[i].completed_at]
                      /\ current_state = STATE_RESPONDING
              ELSE \/ /\ goals'[i].status = "pending"
                      /\ current_state = STATE_PLANNING
                   \/ /\ goals'[i].status = "completed"
                      /\ goals'[i].goal_type = ASSESS_SITUATION
                      /\ goals'[i].completed_at # NoTime
                      /\ current_state = STATE_ANALYZING
    ]_vars

\* C15 witness: RESPONDING has completed a goal that was pending, next to
\* the completed assessment goal and to goals still pending
C15_Witness ==
  /\ current_state = STATE_RESPONDING
  /\ resp_pc = "execute"
  /\ resp_i = 2
  /\ goals[1].goal_type = ASSESS_SITUATION
  /\ goals[1].status = "completed"
  /\ goals[pending_goals[1]].status = "completed"
  /\ goals[pending_goals[2]].status = "pending"

\* ------------------------------------------------------------------------
\* Coordination protocol: properties
\* ------------------------------------------------------------------------
\* the resource requests ever sent
SentRequests == {m \in BagToSet(sent) : m.message_type = RESOURCE_REQUEST}

\* the alerts ever sent
SentAlerts == {m \in BagToSet(sent) : m.message_type = DISASTER_ALERT}

\* number of resource requests ever sent to r with conversation id eid
RequestsSentTo(r, eid) ==
  SumCopies(sent, {m \in SentRequests : m.to = r /\ m.conversation_id = eid})

\* number of alerts with event id eid the coordinator has received
AlertsHandled(eid) ==
  Cardinality({i \in 1..Len(message_log[COMMAND]) :
     /\ message_log[COMMAND][i].message_type = DISASTER_ALERT
     /\ message_log[COMMAND][i].receiver = COMMAND
     /\ message_log[COMMAND][i].content.event_id = eid})

\* the coordinator is still in the loop of the alert with event id eid and
\* has not yet sent to the k-th rescue agent
NotYetSent(k, eid) ==
  alert_pc = "sent" /\ disaster_data.event_id = eid /\ k > alert_i

\* the grant rule of the claim, for one resource type
C8_Granted(requested, held) == IF requested <= held THEN requested ELSE held

\* C8: in the step in which a responder answers a request, for each of the
\* three resource types the amount in the response it sends is
\* min(requested, held before) and the pool afterwards holds held before
\* minus that amount.
C8_GrantIsMin ==
  [][ \A r \in DOMAIN rescue_pc :
        (rescue_pc[r] = "sleep" /\ rescue_pc'[r] = "sent")
          => LET req == rescue_msg[r].body.resources
                 held == available_resources[r]
                 left == available_resources'[r]
                 resp == rescue_response'[r]
                 granted == resp.body.resources
             IN  /\ CopiesIn(resp, net') = CopiesIn(resp, net) + 1
                 /\ granted.rescue_teams =
                      C8_Granted(req.rescue_teams, held.rescue_teams)
                 /\ granted.medical_units =
                      C8_Granted(req.medical_units, held.medical_units)
                 /\ granted.equipment =
                      C8_Granted(req.equipment, held.equipment)
                 /\ left.rescue_teams = held.rescue_teams - granted.rescue_teams
                 /\ left.medical_units =
                      held.medical_units - granted.medical_units
                 /\ left.equipment = held.equipment - granted.equipment
    ]_vars

\* C8 witness: a responder holding 5 medical units and 5 equipment answered
\* a request for 3 and 9: it granted 3 and 5 and is left with 2 and 0
C8_Witness ==
  \E r \in DOMAIN rescue_pc :
    /\ rescue_pc[r] = "sent"
    /\ rescue_msg[r].body.resources.medical_units = 3
    /\ rescue_msg[r].body.resources.equipment = 9
    /\ rescue_response[r].body.resources.medical_units = 3
    /\ rescue_response[r].body.resources.equipment = 5
    /\ available_resources[r].medical_units = 2
    /\ available_resources[r].equipment = 0

\* C9: every message the coordinator sends is a resource_request with
\* performative request, addressed to a known rescue agent and carrying its
\* event id as conversation id; for every rescue agent and event id the
\* number of requests sent equals the number of alerts with that event id
\* handled (less the one still to be sent inside the running loop); after
\* one alert and with two rescue agents exactly two requests were sent.
C9_OneRequestPerResponder ==
  alert_pc # "off" =>
    /\ \A m \in BagToSet(sent) :
         (m.sender = COMMAND \/ m.message_type = RESOURCE_REQUEST
            \/ m.performative = REQUEST)
           => /\ m.sender = COMMAND
              /\ m.performative = REQUEST
              /\ m.message_type = RESOURCE_REQUEST
              /\ m.to \in RescueAgents
              /\ m.conversation_id = m.body.event_id
    /\ \A k \in 1..Len(rescue_agents) : \A eid \in EventIds :
         RequestsSentTo(rescue_agents[k], eid) =
           AlertsHandled(eid) - (IF NotYetSent(k, eid) THEN 1 ELSE 0)
    /\ (alert_pc = "receive" /\ Len(rescue_agents) = 2
          /\ SumCopies(sent, SentAlerts) = 1)
         => SumCopies(sent, SentRequests) \in {0, 2}

\* C9 witness: one alert was handled to the end and two requests were sent,
\* one to each rescue agent, both with the alert's event id
C9_Witness ==
  /\ alert_pc = "receive"
  /\ AlertsHandled(disaster_data.event_id) = 1
  /\ SumCopies(sent, SentRequests) = 2
  /\ \A k \in 1..2 :
       RequestsSentTo(rescue_agents[k], disaster_data.event_id) = 1

\* C10: every request ever sent answers an alert of the same event id and
\* severity s in 1..5 and asks for exactly 2*s rescue teams, s medical units
\* and 3*s equipment; the requests of one alert ask every rescue agent for
\* the same amounts.
C10_LinearDemand ==
  /\ \A m \in SentRequests :
       \E a \in SentAlerts :
         /\ a.body.event_id = m.body.event_id
         /\ a.body.severity = m.body.severity
         /\ a.body.severity \in SeverityLevel
         /\ m.body.resources.rescue_teams = 2 * a.body.severity
         /\ m.body.resources.medical_units = a.body.severity
         /\ m.body.resources.equipment = 3 * a.body.severity
  /\ \A m1 \in SentRequests : \A m2 \in SentRequests :
       (m1.conversation_id = m2.conversation_id
          /\ m1.body.severity = m2.body.severity)
         => m1.body.resources = m2.body.resources

\* C10 witness: both rescue agents were asked for 10 teams, 5 medical units
\* and 15 equipment after a severity-5 alert
C10_Witness ==
  \A k \in 1..Len(rescue_agents) :
    \E m \in SentRequests :
      /\ m.to = rescue_agents[k]
      /\ m.body.severity = 5
      /\ m.body.resources = Resources(10, 5, 15)

\* number of requests with event id eid that rescue agent r has received
RequestsReceived(r, eid) ==
  Cardinality({i \in 1..Len(message_log[r]) :
     /\ message_log[r][i].receiver = r
     /\ message_log[r][i].message_type = RESOURCE_REQUEST
     /\ message_log[r][i].conversation_id = eid})

\* the messages rescue agent r has ever sent
SentBy(r) == {m \in BagToSet(sent) : m.sender = r}

\* number of responses with conversation id eid that r has ever sent
ResponsesSent(r, eid) ==
  SumCopies(sent, {m \in SentBy(r) : m.conversation_id = eid})

\* C11 (state part): everything a rescue agent has sent is an inform
\* resource_response to the coordinator with its event id as conversation id,
\* status "resources_allocated" and amounts between zero and what the pool
\* could hold; per event id it has sent as many responses as it has received
\* requests, less the one it is still working on.
C11_ResponsesMatchRequests ==
  \A r \in DOMAIN rescue_pc :
    /\ \A m \in SentBy(r) :
         /\ m.performative = INFORM
         /\ m.message_type = RESOURCE_RESPONSE
         /\ m.to = COMMAND
         /\ m.conversation_id = m.body.event_id
         /\ m.body.status = "resources_allocated"
         /\ m.body.resources.rescue_teams \in 0..TeamsHi
         /\ m.body.resources.medical_units \in 0..MedicalHi
         /\ m.body.resources.equipment \in 0..EquipmentHi
    /\ \A eid \in EventIds :
         ResponsesSent(r, eid) =
           RequestsReceived(r, eid)
             - (IF rescue_pc[r] = "sleep" /\ rescue_msg[r].body.event_id = eid
                THEN 1 ELSE 0)

\* C11 (step part): a rescue agent sends only in the step that answers the
\* request it holds, and there it sends exactly one message: an inform
\* resource_response to the request's sender, with the request's event id as
\* conversation id, status "resources_allocated" and the amounts just taken
\* from the pool (possibly fewer than asked, possibly none).
C11_OneResponseSent ==
  \A r \in DOMAIN rescue_pc :
    LET answering == rescue_pc[r] = "sleep" /\ rescue_pc'[r] = "sent"
        new == {m \in BagToSet(sent') : CopiesIn(m, sent') # CopiesIn(m, sent)}
        resp == rescue_response'[r]
    IN  /\ (\E m \in new : m.sender = r) => answering
        /\ answering =>
             /\ \A m \in BagToSet(sent) : CopiesIn(m, sent') >= CopiesIn(m, sent)
             /\ new = {resp}
             /\ CopiesIn(resp, sent') = CopiesIn(resp, sent) + 1
             /\ CopiesIn(resp, net') = CopiesIn(resp, net) + 1
             /\ resp.to = rescue_msg[r].sender
             /\ resp.sender = r
             /\ resp.performative = INFORM
             /\ resp.message_type = RESOURCE_RESPONSE
             /\ resp.conversation_id = rescue_msg[r].body.event_id
             /\ resp.body.event_id = rescue_msg[r].body.event_id
             /\ resp.body.status = "resources_allocated"
             /\ resp.body.resources =
                  decrement(available_resources[r], available_resources'[r])

\* C11: every request a rescue agent handles produces exactly one
\* resource_response (inform) to the request's sender, with the request's
\* event id as conversation id, status "resources_allocated" and the granted
\* amounts, also when the pool is short or empty.
C11_EveryRequestAnswered ==
  /\ []C11_ResponsesMatchRequests
  /\ [][C11_OneResponseSent]_vars

\* C11 witness: a rescue agent whose pool is empty has answered a request for
\* resources with a response granting nothing, after a partial grant
C11_Witness ==
  \E r \in DOMAIN rescue_pc :
    /\ rescue_pc[r] = "receive"
    /\ ResponsesSent(r, rescue_msg[r].body.event_id) >= 1
    /\ available_resources[r] = NoResources
    /\ rescue_msg[r].body.resources.rescue_teams > 0
    /\ rescue_response[r].body.resources = NoResources
    /\ rescue_response[r] \in SentBy(r)
    /\ \E m \in SentBy(r) :
         /\ m.body.resources.rescue_teams = TeamsLo
         /\ m.body.resources.equipment = EquipmentLo

\* ------------------------------------------------------------------------
\* Environment model: properties
\* ------------------------------------------------------------------------
\* the five clamped readings of snapshot c are within their ranges
InClampRanges(c) ==
  /\ -10 * Scale <= c.temperature /\ c.temperature <= 45 * Scale
  /\ 0 <= c.humidity /\ c.humidity <= 100 * Scale
  /\ 0 <= c.wind_speed /\ c.wind_speed <= 150 * Scale
  /\ 0 <= c.air_quality /\ c.air_quality <= 500
  /\ 0 <= c.water_level /\ c.water_level <= 20 * Scale

\* C12: after every update, whatever updates came before, temperature is in
\* [-10,45], humidity in [0,100], wind speed in [0,150], air quality in
\* [0,500] and water level in [0,20]; so is every snapshot an update stored.
C12_ClampedAfterUpdate ==
  /\ env_last = "update" => InClampRanges(current_conditions)
  /\ \A i \in 1..Len(conditions_history) :
       InClampRanges(conditions_history[i])

\* C12 witness: an update whose draws pushed all five readings past their
\* upper limits left them exactly on the limits
C12_Witness ==
  /\ env_last = "update"
  /\ last_draw = EnvironmentalCondition(20, 50, 30, 10, 5, 20)
  /\ current_conditions =
       EnvironmentalCondition(45 * Scale, 100 * Scale, 150 * Scale, 500,
                              20 * Scale, 20)

\* the magnitudes 0.0, 0.1, ... 10.0
Magnitudes == 0..(10 * Scale)

\* the band of the claim that magnitude m lies in
C13_Band(m) ==
  CHOOSE sev \in SeverityLevel :
    /\ sev = MINIMAL <=> m < 45
    /\ sev = LOW <=> (45 <= m /\ m < 55)
    /\ sev = MODERATE <=> (55 <= m /\ m < 65)
    /\ sev = HIGH <=> (65 <= m /\ m < 75)
    /\ sev = CRITICAL <=> m >= 75

\* C13: earthquake severity depends on the magnitude alone, with half-open
\* bands: below 4.5 Minimal, 4.5 to below 5.5 Low, 5.5 to below 6.5
\* Moderate, 6.5 to below 7.5 High, 7.5 and above Critical (4.5, 5.5, 6.5
\* and 7.5 belong to the upper band); the event a check creates for a
\* seismic reading above 4.0 carries that severity.
C13_EarthquakeBands ==
  /\ \A m \in Magnitudes :
       _determine_earthquake_severity(m) = C13_Band(m)
  /\ _determine_earthquake_severity(45) = LOW
  /\ _determine_earthquake_severity(55) = MODERATE
  /\ _determine_earthquake_severity(65) = HIGH
  /\ _determine_earthquake_severity(75) = CRITICAL
  /\ (env_last = "check" /\ current_conditions.seismic_activity > 4 * Scale)
       => /\ Len(new_disasters) >= 1
          /\ new_disasters[1].disaster_type = EARTHQUAKE
          /\ new_disasters[1].severity =
               C13_Band(current_conditions.seismic_activity)

\* C13 witness: a check on a snapshot with magnitude exactly 4.5 created an
\* earthquake event of severity Low
C13_Witness ==
  /\ env_last = "check"
  /\ current_conditions.seismic_activity = 45
  /\ new_disasters[1].disaster_type = EARTHQUAKE
  /\ new_disasters[1].severity = LOW

\* C14: no two events of the history share an identifier, whatever calls
\* created them (also several in one call), and the identifiers follow the
\* counter: the i-th event ever created has the identifier formatted from i,
\* the events one call returns being the latest of the history.
C14_UniqueEventIds ==
  LET n == Len(event_history)
      k == Len(new_disasters)
  IN  /\ \A i \in 1..n : \A j \in 1..n :
           i # j => event_history[i].event_id # event_history[j].event_id
      /\ \A i \in 1..n : event_history[i].event_id = EventId(i)
      /\ event_counter = n
      /\ k <= n
      /\ \A i \in 1..k : new_disasters[i] = event_history[n - k + i]

\* C14 witness: two calls in a row created four events each
C14_Witness ==
  /\ checks = 2
  /\ Len(new_disasters) = 4
  /\ Len(event_history) = 8
  /\ event_history[8].event_id = "EVENT-0008"

\* the resource responses ever sent
SentResponses == {m \in BagToSet(sent) : m.message_type = RESOURCE_RESPONSE}

\* the responses ever sent for event eid
ResponsesFor(eid) == {m \in SentResponses : m.conversation_id = eid}

\* the keys of a resource dictionary
ResourceTypes == {"rescue_teams", "medical_units", "equipment"}

\* sum of the amounts of resource type k in the responses of set S
RECURSIVE SumGranted(_, _)
SumGranted(S, k) ==
  IF S = {} THEN 0
  ELSE LET m == CHOOSE x \in S : TRUE
       IN  m.body.resources[k] + SumGranted(S \ {m}, k)

\* total amount of resource type k granted for event eid by all rescue agents
C16_Total(eid, k) == SumGranted(ResponsesFor(eid), k)

\* C16: rescue agents grant independently of one another.  For the one alert
\* of a run, each rescue agent that has answered granted, per resource type,
\* the full amount requested unless its own pool ran out (whatever the other
\* rescue agent granted), so the total granted for the event is limited only
\* by the number of rescue agents times the amount requested, and it can
\* exceed the amount requested (C16_Witness).
C16_IndependentGrants ==
  \A q \in SentRequests : \A m \in ResponsesFor(q.conversation_id) :
    m.sender = q.to =>
      \A k \in ResourceTypes :
        LET req == q.body.resources[k]
            g == m.body.resources[k]
            left == available_resources[m.sender][k]
        IN  /\ g = req \/ (g < req /\ left = 0)
            /\ C16_Total(q.conversation_id, k) <= Len(rescue_agents) * req

\* C16 witness: both rescue agents have answered the requests of one alert
\* and together granted more rescue teams, medical units and equipment than
\* the coordinator asked for
C16_Witness ==
  \E q \in SentRequests :
    LET eid == q.conversation_id
    IN  /\ Cardinality({m.sender : m \in ResponsesFor(eid)}) = 2
        /\ SumCopies(sent, SentAlerts) = 1
        /\ \A k \in ResourceTypes : C16_Total(eid, k) > q.body.resources[k]

\* number of entries in the coordinator's log for responses of rescue agent r
ResponsesLogged(r) ==
  Cardinality({i \in 1..Len(message_log[COMMAND]) :
     /\ message_log[COMMAND][i].message_type = RESOURCE_RESPONSE
     /\ message_log[COMMAND][i].receiver = COMMAND
     /\ message_log[COMMAND][i].sender = r})

\* position of the first entry for a response of r in the coordinator's log
\* (0 if there is none)
FirstResponseLogged(r) ==
  LET at == {i \in 1..Len(message_log[COMMAND]) :
               /\ message_log[COMMAND][i].message_type = RESOURCE_RESPONSE
               /\ message_log[COMMAND][i].sender = r}
  IN  IF at = {} THEN 0 ELSE CHOOSE i \in at : \A j \in at : i <= j

\* C17: the coordinator takes the responses in no fixed order: every
\* response in flight, whichever rescue agent sent it and whatever else is
\* in flight, can be the next one it receives; and whatever the order, every
\* response it has received is in its log exactly once, with the granted
\* amounts as sent.
C17_AnyArrivalOrder ==
  alert_pc # "off" =>
    /\ \A m \in Receivable(COMMAND, INFORM, RESOURCE_RESPONSE) :
         ENABLED ResponseReceiveOf(m)
    /\ \A r \in RescueAgents :
         LET from == {m \in SentResponses : m.sender = r}
         IN  /\ ResponsesLogged(r) = SumCopies(sent, from) - SumCopies(net, from)
             /\ \A i \in 1..Len(message_log[COMMAND]) :
                  LET e == message_log[COMMAND][i]
                  IN  (e.message_type = RESOURCE_RESPONSE /\ e.sender = r)
                        => \E m \in from : e = ReceivedLog(m, COMMAND)

\* C17 witness: the coordinator has logged both responses of one alert, the
\* one of the second rescue agent before the one of the first
C17_Witness ==
  /\ ResponsesLogged(rescue_agents[1]) = 1
  /\ ResponsesLogged(rescue_agents[2]) = 1
  /\ FirstResponseLogged(rescue_agents[2]) < FirstResponseLogged(rescue_agents[1])

\* the other order: the response of the first rescue agent was logged first
C17_InOrder ==
  /\ ResponsesLogged(rescue_agents[1]) = 1
  /\ ResponsesLogged(rescue_agents[2]) = 1
  /\ FirstResponseLogged(rescue_agents[1]) < FirstResponseLogged(rescue_agents[2])

\* the log entry that records message m
EntryOf(m) ==
  ACLMessageLog(m.sender, m.to, m.performative, m.message_type, m.body,
                m.conversation_id)

\* number of entries of log that equal e
CountEntries(log, e) == Cardinality({i \in 1..Len(log) : log[i] = e})

\* the message agent a has passed to send and not yet logged (its behaviour
\* stands between the send and the append), as a set
SentNotLogged(a) ==
  IF a \in DOMAIN sensor_pc
  THEN IF sensor_pc[a] = "sent"
       THEN {Message(COMMAND, a, INFORM, DISASTER_ALERT,
                     sensor_disaster[a].event_id, sensor_disaster[a])}
       ELSE {}
  ELSE IF a = COMMAND
  THEN IF alert_pc = "sent"
       THEN {ResourceRequest(rescue_agents[alert_i], disaster_data)}
       ELSE {}
  ELSE IF rescue_pc[a] = "sent" THEN {rescue_response[a]} ELSE {}

\* C18 (state part): every message ever sent is in its sender's log once per
\* send (less the send whose append is still to come) and in its receiver's
\* log once per receipt, and in no other log; the logs hold nothing else.
C18_LoggedOnceByOwner ==
  /\ \A m \in BagToSet(sent) :
       /\ CountEntries(message_log[m.sender], EntryOf(m)) =
            CopiesIn(m, sent) - (IF m \in SentNotLogged(m.sender) THEN 1 ELSE 0)
       /\ CountEntries(message_log[m.to], EntryOf(m)) =
            CopiesIn(m, sent) - CopiesIn(m, net)
       /\ \A a \in DOMAIN message_log \ {m.sender, m.to} :
            CountEntries(message_log[a], EntryOf(m)) = 0
  /\ \A a \in DOMAIN message_log : \A i \in 1..Len(message_log[a]) :
       /\ a \in {message_log[a][i].sender, message_log[a][i].receiver}
       /\ \E m \in BagToSet(sent) : message_log[a][i] = EntryOf(m)

\* C18 (step part): a step appends at most one entry to a log and changes
\* or removes none.
C18_AppendOnly ==
  \A a \in DOMAIN message_log :
    /\ Len(message_log'[a]) \in {Len(message_log[a]), Len(message_log[a]) + 1}
    /\ SubSeq(message_log'[a], 1, Len(message_log[a])) = message_log[a]

\* C18: each message an agent sends and each message it receives is appended
\* exactly once to that agent's own log and never to another agent's log,
\* and the logs are append-only.
C18_OwnLogOnly ==
  /\ []C18_LoggedOnceByOwner
  /\ [][C18_AppendOnly]_vars

\* C18 witness: the run of one alert is over: the sensor has logged 1
\* message, the coordinator 5 (the alert, two requests, two responses),
\* each rescue agent 2
C18_Witness ==
  /\ net = EmptyBag
  /\ SumCopies(sent, BagToSet(sent)) = 5
  /\ \A s \in DOMAIN sensor_pc : Len(message_log[s]) = 1
  /\ Len(message_log[COMMAND]) = 5
  /\ \A r \in DOMAIN rescue_pc :
       Len(message_log[r]) = 2 /\ rescue_pc[r] = "receive"
  /\ DOMAIN sensor_pc # {}

\* C19: the three pool counters of a rescue agent change only in the step
\* in which that rescue agent answers the request it holds; that step moves
\* no other agent (sensor, coordinator, other rescue agent) and touches no
\* other pool, and no other step (a send, a receipt, a log append of any
\* agent) changes a pool; the set of pools never changes.
C19_PoolFrame ==
  [][ /\ DOMAIN available_resources' = DOMAIN available_resources
      /\ \A r \in DOMAIN available_resources :
           available_resources'[r] # available_resources[r]
             => /\ rescue_pc[r] = "sleep"
                /\ rescue_pc'[r] = "sent"
                /\ rescue_msg'[r] = rescue_msg[r]
                /\ available_resources'[r] =
                     decrement(available_resources[r],
                               rescue_response'[r].body.resources)
                /\ \A o \in DOMAIN available_resources \ {r} :
                     /\ available_resources'[o] = available_resources[o]
                     /\ rescue_pc'[o] = rescue_pc[o]
                /\ sensor_pc' = sensor_pc
                /\ alert_pc' = alert_pc
                /\ alert_i' = alert_i
                /\ message_log' = message_log
    ]_vars

\* C19 witness: one rescue agent has answered and its pool has shrunk, while
\* the other one, with its request still in flight, holds its initial pool
C19_Witness ==
  \E r \in DOMAIN rescue_pc : \E o \in DOMAIN rescue_pc \ {r} :
    /\ rescue_pc[r] = "sent"
    /\ rescue_response[r].body.resources = Resources(4, 2, 5)
    /\ available_resources[r] = Resources(4, 0, 0)
    /\ rescue_pc[o] = "receive"
    /\ message_log[o] = << >>
    /\ available_resources[o] = Resources(TeamsHi, MedicalLo, EquipmentLo)
    /\ Receivable(o, REQUEST, RESOURCE_REQUEST) # {}
    /\ alert_pc = "receive"

\* no threshold rule of check_for_disasters fires on snapshot c
NonTriggering(c) ==
  /\ c.seismic_activity <= 4 * Scale
  /\ c.water_level <= 10 * Scale
  /\ ~(c.temperature > 35 * Scale /\ c.humidity < 20 * Scale)
  /\ c.wind_speed <= 120 * Scale

\* C20: every check_for_disasters call on a snapshot whose readings are all
\* on the non-triggering side of the thresholds (the thresholds included)
\* returns no event or exactly one event, the one of the random roll, and
\* leaves the snapshot as it was, so the same holds for the next call.
C20_QuietSnapshot ==
  [][ (checks' = checks + 1 /\ NonTriggering(current_conditions))
        => /\ current_conditions' = current_conditions
           /\ conditions_history' = conditions_history
           /\ NonTriggering(current_conditions')
           /\ Len(new_disasters') \in {0, 1}
           /\ event_counter' = event_counter + Len(new_disasters')
           /\ Len(new_disasters') = 1
                => \E roll \in Rolls :
                     /\ roll.hit
                     /\ new_disasters'[1].disaster_type = roll.disaster_type
                     /\ new_disasters'[1].severity = roll.severity
    ]_vars

\* C20 witness: two calls in a row on the snapshot with every reading
\* exactly on its threshold: the first returned nothing, the second one
\* event
C20_Witness ==
  /\ env_last = "check"
  /\ checks = 2
  /\ conditions_history = << >>
  /\ current_conditions = EnvironmentalCondition(350, 200, 1200, 50, 100, 40)
  /\ NonTriggering(current_conditions)
  /\ Len(new_disasters) = 1
  /\ event_counter = 1

\* 1 if b holds, else 0
Bit(b) == IF b THEN 1 ELSE 0

\* the threshold rules of the claims on snapshot c, in the order Earthquake,
\* Flood, Fire, Hurricane: type and whether the condition holds
ThresholdRules(c) ==
  << [disaster_type |-> EARTHQUAKE, holds |-> c.seismic_activity > 4 * Scale],
     [disaster_type |-> FLOOD, holds |-> c.water_level > 10 * Scale],
     [disaster_type |-> FIRE,
      holds |-> c.temperature > 35 * Scale /\ c.humidity < 20 * Scale],
     [disaster_type |-> HURRICANE, holds |-> c.wind_speed > 120 * Scale] >>

\* number of the first k threshold rules whose condition holds on c
RECURSIVE HoldingUpTo(_, _)
HoldingUpTo(c, k) ==
  IF k = 0 THEN 0
  ELSE HoldingUpTo(c, k - 1) + Bit(ThresholdRules(c)[k].holds)

\* C21: one check_for_disasters call returns, in the order Earthquake,
\* Flood, Fire, Hurricane, exactly one event for each threshold rule whose
\* (strict) condition holds, followed by at most one event of the random
\* roll; the rules do not exclude one another, the call returns between 0
\* and 5 events, and a reading exactly on its threshold triggers nothing.
C21_RulesInOrder ==
  [][ checks' = checks + 1 =>
        LET c == current_conditions
            n == HoldingUpTo(c, 4)
            k == Len(new_disasters')
        IN  /\ k \in {n, n + 1}
            /\ k \in 0..5
            /\ \A j \in 1..4 :
                 ThresholdRules(c)[j].holds
                   => new_disasters'[HoldingUpTo(c, j)].disaster_type =
                        ThresholdRules(c)[j].disaster_type
            /\ k = n + 1 => new_disasters'[k].disaster_type \in DisasterType
            /\ (c.seismic_activity = 4 * Scale /\ c.water_level = 10 * Scale
                /\ c.temperature = 35 * Scale /\ c.wind_speed = 120 * Scale)
                 => n = 0
    ]_vars

\* C21 witness: a call on a snapshot past all four thresholds returned five
\* events: Earthquake, Flood, Fire, Hurricane and the Tornado of the roll
C21_Witness ==
  /\ env_last = "check"
  /\ Len(new_disasters) = 5
  /\ [i \in 1..5 |-> new_disasters[i].disaster_type] =
       <<EARTHQUAKE, FLOOD, FIRE, HURRICANE, TORNADO>>

\* the water levels, temperatures and wind speeds of the clamp ranges
WaterLevels == 0..(20 * Scale)
Temperatures == (-10 * Scale)..(45 * Scale)
WindSpeeds == 0..(150 * Scale)

\* the severity the claim gives a threshold-triggered event of the type on
\* snapshot c
C22_Band(type, c) ==
  IF type = FLOOD
  THEN IF c.water_level < 12 * Scale THEN MODERATE
       ELSE IF c.water_level < 15 * Scale THEN HIGH ELSE CRITICAL
  ELSE IF type = FIRE
  THEN IF c.temperature < 38 * Scale THEN LOW
       ELSE IF c.temperature < 42 * Scale THEN MODERATE ELSE HIGH
  ELSE IF c.wind_speed < 130 * Scale THEN MODERATE
       ELSE IF c.wind_speed < 140 * Scale THEN HIGH ELSE CRITICAL

\* C22: the severity functions follow half-open bands (Flood: Moderate below
\* 12, High from 12 to below 15, else Critical; Fire: Low below 38, Moderate
\* from 38 to below 42, else High; Hurricane: Moderate below 130, High from
\* 130 to below 140, else Critical), and the Flood, Fire and Hurricane
\* events a check creates for a threshold rule carry these severities: a
\* Flood or Hurricane is never below Moderate, a Fire never Minimal or
\* Critical.
C22_SeverityBands ==
  /\ \A l \in WaterLevels :
       _determine_flood_severity(l) =
         C22_Band(FLOOD, [water_level |-> l])
  /\ \A t \in Temperatures :
       _determine_fire_severity(t) = C22_Band(FIRE, [temperature |-> t])
  /\ \A w \in WindSpeeds :
       _determine_hurricane_severity(w) =
         C22_Band(HURRICANE, [wind_speed |-> w])
  /\ env_last = "check" =>
       \A j \in 2..4 :
         LET c == current_conditions
             rule == ThresholdRules(c)[j]
             event == new_disasters[HoldingUpTo(c, j)]
         IN  rule.holds
               => /\ HoldingUpTo(c, j) <= Len(new_disasters)
                  /\ event.disaster_type = rule.disaster_type
                  /\ event.severity = C22_Band(rule.disaster_type, c)
                  /\ rule.disaster_type \in {FLOOD, HURRICANE}
                       => event.severity \in {MODERATE, HIGH, CRITICAL}
                  /\ rule.disaster_type = FIRE
                       => event.severity \in {LOW, MODERATE, HIGH}

\* C22 witness: after an update that brought the temperature to exactly 38,
\* a check created a Moderate Flood, a Moderate Fire and a Moderate
\* Hurricane
C22_Witness ==
  /\ env_last = "check"
  /\ current_conditions.temperature = 38 * Scale
  /\ Len(new_disasters) >= 3
  /\ [i \in 1..3 |-> <<new_disasters[i].disaster_type,
                       new_disasters[i].severity>>] =
       << <<FLOOD, MODERATE>>, <<FIRE, MODERATE>>, <<HURRICANE, MODERATE>> >>

\* C23 (state part): the active list equals the history and both are as
\* long as the event counter says.
C23_ListsAgree ==
  /\ active_disasters = event_history
  /\ Len(event_history) = event_counter

\* C23 (step part): a check appends the events it returns, in the returned
\* order, to both lists; no step removes or changes an earlier entry, and
\* only a check changes the lists.
C23_AppendReturned ==
  /\ checks' = checks + 1
       => /\ event_history' = event_history \o new_disasters'
          /\ active_disasters' = active_disasters \o new_disasters'
  /\ checks' = checks
       => /\ event_history' = event_history
          /\ active_disasters' = active_disasters
  /\ Len(event_history') >= Len(event_history)
  /\ SubSeq(event_history', 1, Len(event_history)) = event_history
  /\ Len(active_disasters') >= Len(active_disasters)
  /\ SubSeq(active_disasters', 1, Len(active_disasters)) = active_disasters

\* C23: every event a check returns is appended, in the returned order, to
\* both the active list and the history; both are append-only, so the
\* active list always equals the history and its length the event counter.
C23_BothListsAppendOnly ==
  /\ []C23_ListsAgree
  /\ [][C23_AppendReturned]_vars

\* C23 witness: a second check, after an update, returned three events that
\* were appended behind the four of the first check
C23_Witness ==
  /\ env_last = "check"
  /\ checks = 2
  /\ Len(conditions_history) = 1
  /\ Len(new_disasters) = 3
  /\ Len(event_history) = 7
  /\ active_disasters = event_history
  /\ SubSeq(event_history, 5, 7) = new_disasters

\* |a - b|
Distance(a, b) == IF a >= b THEN a - b ELSE b - a

\* C24: an update replaces the seismic reading by a fresh draw, so that
\* after every update it lies in [0,2] whatever it was before, while each
\* of the other five readings differs from its previous value by at most
\* its perturbation bound (temperature 2, humidity 5, wind speed 3, air
\* quality 10, water level 0.5).
C24_SeismicReplaced ==
  [][ Len(conditions_history') = Len(conditions_history) + 1 =>
        LET old == current_conditions
            new == current_conditions'
        IN  /\ new.seismic_activity = last_draw'.seismic_activity
            /\ 0 <= new.seismic_activity
            /\ new.seismic_activity <= 2 * Scale
            /\ Distance(new.temperature, old.temperature) <= 2 * Scale
            /\ Distance(new.humidity, old.humidity) <= 5 * Scale
            /\ Distance(new.wind_speed, old.wind_speed) <= 3 * Scale
            /\ Distance(new.air_quality, old.air_quality) <= 10
            /\ 2 * Distance(new.water_level, old.water_level) <= Scale
    ]_vars

\* C24 witness: a check returned five events, so the seismic reading was
\* above 4.0; the update that followed drew 2.0 and left it at 2.0, while
\* the temperature went from 36.0 to 38.0
C24_Witness ==
  /\ env_last = "update"
  /\ checks = 1
  /\ Len(conditions_history) = 1
  /\ Len(new_disasters) = 5
  /\ new_disasters[1].disaster_type = EARTHQUAKE
  /\ last_draw.seismic_activity = 2 * Scale
  /\ current_conditions.seismic_activity = 2 * Scale
  /\ current_conditions.temperature = 38 * Scale

\* ------------------------------------------------------------------------
\* Response agent: properties of the goal list and of the event in hand
\* ------------------------------------------------------------------------
\* C25: every execution of ANALYZING appends exactly one goal, of type
\* ASSESS_SITUATION and priority 5, which is completed and carries its
\* completion timestamp when the machine leaves ANALYZING for PLANNING; the
\* goals that existed before are unchanged, and while the machine is in
\* ANALYZING no other step touches the goal list.
C25_OneAssessmentGoal ==
  [][ /\ (FSMStep /\ last_step'.state = STATE_ANALYZING
            => /\ current_state = STATE_ANALYZING
               /\ current_state' = STATE_PLANNING
               /\ Len(goals') = Len(goals) + 1
               /\ SubSeq(goals', 1, Len(goals)) = goals
               /\ LET g == goals'[Len(goals')]
                  IN  /\ g.goal_type = ASSESS_SITUATION
                      /\ g.priority = 5
                      /\ g.status = "completed"
                      /\ g.completed_at # NoTime
                      /\ g.completed_at >= g.created_at)
      /\ (current_state = STATE_ANALYZING
            /\ ~(FSMStep /\ last_step'.state = STATE_ANALYZING)
            => goals' = goals)
    ]_vars

\* C25 witness: ANALYZING of the second cycle has just run; the goals of the
\* first cycle are in the list, followed by the new completed assessment
C25_Witness ==
  /\ last_step.state = STATE_ANALYZING
  /\ current_state = STATE_PLANNING
  /\ Len(goals) >= 5
  /\ CountState(fsm_trace, STATE_ANALYZING) = 2
  /\ goals[Len(goals)].goal_type = ASSESS_SITUATION
  /\ goals[Len(goals)].status = "completed"
  /\ goals[1].goal_type = ASSESS_SITUATION

\* number of goals the cycles recorded in trace tr created: one per
\* ANALYZING entry and goals_count per PLANNING entry
RECURSIVE C26_Created(_)
C26_Created(tr) ==
  IF tr = << >> THEN 0
  ELSE (CASE Head(tr).state = STATE_ANALYZING -> 1
          [] Head(tr).state = STATE_PLANNING -> Head(tr).goals_count
          [] OTHER -> 0)
       + C26_Created(Tail(tr))

\* number of goals of gs with status "completed"
C26_Completed(gs) ==
  Cardinality({i \in 1..Len(gs) : gs[i].status = "completed"})

\* every MONITORING entry records as total_goals the goals created by all the
\* cycles traced up to it
C26_TotalIsSumOverCycles ==
  \A i \in 1..Len(fsm_trace) :
    fsm_trace[i].state = STATE_MONITORING
      => fsm_trace[i].total_goals = C26_Created(SubSeq(fsm_trace, 1, i))

\* the entry MONITORING appends counts over the agent's whole goal list
C26_CountsWholeList ==
  (FSMStep /\ last_step'.state = STATE_MONITORING
     /\ last_step'.outcome = "transition")
    => LET e == fsm_trace'[Len(fsm_trace')]
       IN  /\ e.state = STATE_MONITORING
           /\ e.total_goals = Len(goals)
           /\ e.goals_completed = C26_Completed(goals)

\* C26: total_goals and goals_completed recorded by MONITORING count every
\* goal created since the agent started, over all earlier cycles: total_goals
\* after k cycles is the sum over the k cycles of the goals each created.
C26_CountsAcrossCycles ==
  []C26_TotalIsSumOverCycles /\ [][C26_CountsWholeList]_vars

\* C26 witness: MONITORING of the second cycle has run and recorded more
\* goals than the second cycle created
C26_Witness ==
  /\ last_step.state = STATE_MONITORING
  /\ Len(fsm_trace) = 11
  /\ fsm_trace[11].total_goals
       = fsm_trace[5].total_goals + 1 + fsm_trace[9].goals_count
  /\ fsm_trace[11].total_goals > 1 + fsm_trace[9].goals_count
  /\ fsm_trace[11].goals_completed = fsm_trace[11].total_goals

\* the states of a response cycle in which an event is being handled
C27_Handling ==
  {STATE_ANALYZING, STATE_PLANNING, STATE_RESPONDING, STATE_MONITORING,
   STATE_COMPLETED}

\* the current event is non-empty exactly in the handling states
C27_HeldExactlyWhileHandling ==
  (current_event # None) <=> (current_state \in C27_Handling)

\* the current event is set only by the IDLE step that accepts an alert and
\* cleared only by COMPLETED on its way back to IDLE
C27_SetByIdleClearedByCompleted ==
  /\ (current_event = None /\ current_event' # None
        => /\ FSMStep
           /\ last_step'.state = STATE_IDLE
           /\ current_state' = STATE_ANALYZING)
  /\ (current_event # None /\ current_event' = None
        => /\ FSMStep
           /\ last_step'.state = STATE_COMPLETED
           /\ current_state' = STATE_IDLE)
  /\ (current_event # None /\ current_event' # None
        => current_event' = current_event)

\* C27: the machine holds a current event exactly while it is in ANALYZING,
\* PLANNING, RESPONDING, MONITORING or COMPLETED; the current event is empty
\* whenever the machine is in IDLE, is set by the IDLE step that accepts an
\* alert and is cleared by COMPLETED before the return to IDLE.
C27_EventHeldExactlyInCycle ==
  []C27_HeldExactlyWhileHandling /\ [][C27_SetByIdleClearedByCompleted]_vars

\* the event in hand is well formed: a JSON object whose severity entry, when
\* present, is a number
C28_WellFormed ==
  /\ current_event # None
  /\ current_event.pytype = "dict"
  /\ get_severity(current_event).pytype = "int"

\* the machine is inside state st with a well-formed event in hand
C28_In(st) == ~killed /\ current_state = st /\ C28_WellFormed

\* the step of the FSM behaviour that is due in the handling states
C28_CycleStep ==
  \/ Analyzing
  \/ Planning
  \/ RespondingSelect
  \/ RespondingExecute
  \/ RespondingFinish
  \/ Monitoring
  \/ Completed

\* in a handling state the due step never depends on a message: it is
\* possible whatever the mailbox holds
C28_NoWaitOnMessage ==
  (\E st \in C27_Handling : C28_In(st)) => ENABLED C28_CycleStep

\* C28: under fair scheduling, once IDLE has accepted a well-formed event the
\* machine passes through ANALYZING, PLANNING, RESPONDING, MONITORING and
\* COMPLETED and returns to IDLE; no state from ANALYZING to COMPLETED waits
\* on a message, so the cycle completes when nothing more is delivered.
C28_CycleCompletes ==
  /\ []C28_NoWaitOnMessage
  /\ C28_In(STATE_ANALYZING) ~> C28_In(STATE_PLANNING)
  /\ C28_In(STATE_PLANNING) ~> C28_In(STATE_RESPONDING)
  /\ C28_In(STATE_RESPONDING) ~> C28_In(STATE_MONITORING)
  /\ C28_In(STATE_MONITORING) ~> C28_In(STATE_COMPLETED)
  /\ C28_In(STATE_COMPLETED)
       ~> (~killed /\ current_state = STATE_IDLE /\ current_event = None)

\* C28 witness: a cycle for a well-formed event has run to its end and the
\* machine is back in IDLE with nothing left to receive
C28_Witness ==
  /\ last_step.state = STATE_COMPLETED
  /\ current_state = STATE_IDLE
  /\ mailbox = << >>
  /\ delivered = 1
  /\ Len(fsm_trace) = 6
  /\ fsm_trace[2].severity.pytype = "int"

\* a message arrives: the transport queues it behind the waiting ones and
\* leaves the running cycle alone
C29_ArrivalLeavesCycleAlone ==
  delivered' # delivered
    => /\ delivered' = delivered + 1
       /\ Len(mailbox') = Len(mailbox) + 1
       /\ SubSeq(mailbox', 1, Len(mailbox)) = mailbox
       /\ mailbox'[Len(mailbox')].event_id = delivered'
       /\ UNCHANGED <<current_state, current_event, goals, fsm_trace>>

\* a message leaves the queue only in an IDLE step, one per step, and it is
\* the one that arrived first
C29_ConsumedByIdleInOrder ==
  (mailbox' # mailbox /\ delivered' = delivered)
    => /\ FSMStep
       /\ current_state = STATE_IDLE
       /\ last_step'.state = STATE_IDLE
       /\ mailbox # << >>
       /\ mailbox' = Tail(mailbox)
       /\ \A k \in 1..Len(mailbox') :
            Head(mailbox).event_id < mailbox'[k].event_id
       /\ (current_state' = STATE_ANALYZING
             => /\ current_event'.event_id = Head(mailbox).event_id
                /\ fsm_trace'[Len(fsm_trace')].event_id
                     = Head(mailbox).event_id)

\* from ANALYZING to COMPLETED the event in hand stays the one IDLE accepted
C29_OneEventPerCycle ==
  (current_state \in C27_Handling /\ current_state' \in C27_Handling)
    => current_event' = current_event

\* the alerts were accepted in the order of their arrival
C29_AcceptedInArrivalOrder ==
  \A i, j \in 1..Len(fsm_trace) :
    (i < j /\ fsm_trace[i].state = STATE_IDLE
           /\ fsm_trace[j].state = STATE_IDLE)
      => fsm_trace[i].event_id < fsm_trace[j].event_id

\* C29: the machine consumes one event per cycle: an alert that arrives
\* while the machine is in ANALYZING..COMPLETED changes neither the current
\* event nor the goals nor the trace, it is taken from the queue only by a
\* later IDLE step, and the alerts are taken in the order of their arrival.
C29_OneEventPerCycleInOrder ==
  /\ []C29_AcceptedInArrivalOrder
  /\ [][ /\ C29_ArrivalLeavesCycleAlone
         /\ C29_ConsumedByIdleInOrder
         /\ C29_OneEventPerCycle ]_vars

\* C29 witness: the second alert waited in the queue while the cycle of the
\* first ran to its end, and the next IDLE step has accepted it
C29_Witness ==
  /\ Len(fsm_trace) = 7
  /\ fsm_trace[1].event_id = 1
  /\ fsm_trace[6].state = STATE_COMPLETED
  /\ fsm_trace[6].event_id = 1
  /\ fsm_trace[7].state = STATE_IDLE
  /\ fsm_trace[7].event_id = 2
  /\ current_state = STATE_ANALYZING
  /\ current_event.event_id = 2
  /\ mailbox = << >>

\* ------------------------------------------------------------------------
\* Coordination protocol: properties of the coordinator's broadcast
\* ------------------------------------------------------------------------
\* number of requests for event eid ever sent to rescue agent r
C30_Requests(r, eid) ==
  SumCopies(sent, {m \in BagToSet(sent) :
                     /\ m.message_type = RESOURCE_REQUEST
                     /\ m.to = r
                     /\ m.conversation_id = eid})

\* number of alerts for event eid the coordinator has accepted
C30_Alerts(eid) ==
  Cardinality({i \in 1..Len(message_log[COMMAND]) :
                 /\ message_log[COMMAND][i].message_type = DISASTER_ALERT
                 /\ message_log[COMMAND][i].conversation_id = eid})

\* number of responses for event eid the coordinator has received
C30_Responses(eid) ==
  Cardinality({i \in 1..Len(message_log[COMMAND]) :
                 /\ message_log[COMMAND][i].message_type = RESOURCE_RESPONSE
                 /\ message_log[COMMAND][i].conversation_id = eid})

\* 1 when the broadcast under way has not reached rescue_agents[k] yet
C30_StillToSend(k, eid) ==
  IF alert_pc = "sent" /\ disaster_data.event_id = eid /\ k > alert_i
  THEN 1 ELSE 0

\* every accepted alert accounts for one request per rescue agent and there
\* is no other request, whatever number of responses has come back
C30_OneRequestPerAlert ==
  \A eid \in EventIds : \A k \in 1..Len(rescue_agents) :
    C30_Requests(rescue_agents[k], eid)
      = C30_Alerts(eid) - C30_StillToSend(k, eid)

\* the alert behaviour never waits for a response: with an alert in flight it
\* can accept it, and in the middle of a broadcast it can go on
C30_NeverWaits ==
  /\ (alert_pc = "receive"
        /\ Receivable(COMMAND, INFORM, DISASTER_ALERT) # {})
       => ENABLED AlertReceive
  /\ alert_pc = "sent" => ENABLED AlertContinue

\* a step in which the coordinator takes a response sends nothing and leaves
\* the alert behaviour where it is
C30_ResponseSendsNothing ==
  (\E eid \in EventIds : C30_Responses(eid)' # C30_Responses(eid))
    => UNCHANGED <<sent, alert_pc, alert_i, disaster_data>>

\* C30: the broadcast is fire-and-forget: once the requests for an alert are
\* sent the coordinator sends no further request for it, whether its
\* responses arrive, arrive in part or never arrive; it never waits for
\* responses and accepts and broadcasts the next alert while responses to an
\* earlier one are outstanding.
C30_FireAndForget ==
  /\ []C30_OneRequestPerAlert
  /\ []C30_NeverWaits
  /\ [][C30_ResponseSendsNothing]_vars

\* C30 witness: two alerts for different events have been accepted and
\* broadcast; of the first alert's two responses one has been received and
\* the other has not been sent, and no response to the second exists
C30_Witness ==
  /\ alert_pc = "receive"
  /\ Len(message_log[COMMAND]) = 7
  /\ message_log[COMMAND][1].message_type = DISASTER_ALERT
  /\ message_log[COMMAND][1].conversation_id = EventIdLo
  /\ message_log[COMMAND][7].message_type = RESOURCE_REQUEST
  /\ message_log[COMMAND][7].conversation_id = EventIdLo + 1
  /\ C30_Alerts(EventIdLo + 1) = 1
  /\ C30_Responses(EventIdLo) = 1
  /\ C30_Responses(EventIdLo + 1) = 0
  /\ Receivable(COMMAND, INFORM, RESOURCE_RESPONSE) = {}
  /\ \A k \in 1..Len(rescue_agents) :
       /\ C30_Requests(rescue_agents[k], EventIdLo) = 1
       /\ C30_Requests(rescue_agents[k], EventIdLo + 1) = 1

\* ------------------------------------------------------------------------
\* Response agent: goal identifiers and goal counters
\* ------------------------------------------------------------------------
\* the i-th goal of the list carries number i
C31_NumberedByPosition ==
  \A i \in 1..Len(goals) : goals[i].goal_id = i

\* no two goals share an identifier
C31_UniqueIds ==
  \A i, j \in 1..Len(goals) : goals[i].goal_id = goals[j].goal_id => i = j

\* goals are only ever appended, so the i-th goal of the list is the i-th
\* goal created, and an identifier once given is kept
C31_CreatedInListOrder ==
  /\ Len(goals') >= Len(goals)
  /\ \A i \in 1..Len(goals) : goals'[i].goal_id = goals[i].goal_id

\* C31: goal identifiers are sequential over the agent's lifetime: the i-th
\* goal ever created has number i, the numbering goes on across cycles
\* without restart, and no two goals share an identifier.
C31_SequentialGoalIds ==
  /\ []C31_NumberedByPosition
  /\ []C31_UniqueIds
  /\ [][C31_CreatedInListOrder]_vars

\* C31 witness: the plan of the second cycle has been made; its goals carry
\* the numbers that follow those of the first cycle
C31_Witness ==
  /\ current_state = STATE_RESPONDING
  /\ CountState(fsm_trace, STATE_PLANNING) = 2
  /\ Len(goals) >= 8
  /\ goals[1].goal_id = 1
  /\ goals[Len(goals)].goal_id = Len(goals)
  /\ goals[Len(goals)].goal_type = MONITOR_RECOVERY
  /\ goals[Len(goals)].status = "pending"

\* ------------------------------------------------------------------------
\* Coordination protocol: properties of the rescue agents' pools
\* ------------------------------------------------------------------------
\* total amount of resource type k in the messages of set S, each counted as
\* often as it was sent
RECURSIVE SumGrantedCopies(_, _)
SumGrantedCopies(S, k) ==
  IF S = {} THEN 0
  ELSE LET m == CHOOSE x \in S : TRUE
       IN  CopiesIn(m, sent) * m.body.resources[k]
             + SumGrantedCopies(S \ {m}, k)

\* total amount of resource type k rescue agent r has ever granted
GrantedBy(r, k) == SumGrantedCopies(SentBy(r), k)

\* number of requests in flight to rescue agent r
C32_Waiting(r) == SumCopies(net, Receivable(r, REQUEST, RESOURCE_REQUEST))

\* a rescue agent takes a request only when it is not handling one, and the
\* request it handles stays the same until its response is logged
C32_OneAtATime ==
  \A r \in DOMAIN rescue_pc :
    /\ (\/ rescue_msg'[r] # rescue_msg[r]
        \/ Len(message_log'[r]) > Len(message_log[r])
             /\ message_log'[r][Len(message_log'[r])].message_type
                  = RESOURCE_REQUEST)
         => /\ rescue_pc[r] = "receive"
            /\ rescue_pc'[r] = "sleep"
            /\ C32_Waiting(r)' = C32_Waiting(r) - 1
    /\ rescue_pc[r] # "receive"
         => /\ rescue_msg'[r] = rescue_msg[r]
            /\ C32_Waiting(r)' >= C32_Waiting(r)

\* the grant is computed from the pool and taken out of the pool in one and
\* the same step: what is granted is what the pool loses
C32_ReadAndDecrementTogether ==
  \A r \in DOMAIN rescue_pc :
    (rescue_pc[r] = "sleep" /\ rescue_pc'[r] # "sleep")
      => LET grant == available(rescue_msg[r].body.resources,
                                available_resources[r])
         IN  /\ rescue_response'[r].body.resources = grant
             /\ available_resources'[r] =
                  decrement(available_resources[r], grant)

\* no unit is granted twice: what a rescue agent holds plus what it has
\* granted stays the same in every step
C32_NoUnitGrantedTwice ==
  (sent' # sent \/ available_resources' # available_resources)
    => \A r \in DOMAIN rescue_pc : \A k \in ResourceTypes :
         available_resources'[r][k] + GrantedBy(r, k)'
           = available_resources[r][k] + GrantedBy(r, k)

\* C32: a rescue agent handles resource requests strictly one at a time, and
\* within one handling the pool is read for the grant and decremented with
\* no suspension in between, so no interleaving of two requests at one
\* rescue agent grants a unit of a resource twice.
C32_SerialHandling ==
  [][ /\ C32_OneAtATime
      /\ C32_ReadAndDecrementTogether
      /\ C32_NoUnitGrantedTwice ]_vars

\* C32 witness: a rescue agent has answered one request out of a pool that
\* could not cover it while a second request to it was waiting in flight
C32_Witness ==
  \E r \in DOMAIN rescue_pc :
    /\ rescue_pc[r] = "sent"
    /\ C32_Waiting(r) = 1
    /\ rescue_msg[r].body.resources.rescue_teams > TeamsLo
    /\ rescue_response[r].body.resources.rescue_teams = TeamsLo
    /\ available_resources[r].rescue_teams = 0
    /\ GrantedBy(r, "rescue_teams") = TeamsLo

\* what rescue agent r holds and has granted, taken together, per resource
C33_HeldPlusGranted(r) ==
  Resources(available_resources[r].rescue_teams
              + GrantedBy(r, "rescue_teams"),
            available_resources[r].medical_units
              + GrantedBy(r, "medical_units"),
            available_resources[r].equipment + GrantedBy(r, "equipment"))

\* every counter is between zero and its initial value, and what has been
\* granted of it in all never exceeds the initial value (the initial pool
\* being what is held and what was granted, which is one of the pools the
\* run can start with)
C33_WithinInitial ==
  \A r \in DOMAIN available_resources :
    /\ C33_HeldPlusGranted(r) \in ExtremePools
    /\ \A k \in ResourceTypes :
         /\ available_resources[r][k] >= 0
         /\ available_resources[r][k] <= C33_HeldPlusGranted(r)[k]
         /\ GrantedBy(r, k) >= 0
         /\ GrantedBy(r, k) <= C33_HeldPlusGranted(r)[k]

\* no counter ever increases
C33_NeverIncreases ==
  \A r \in DOMAIN available_resources : \A k \in ResourceTypes :
    available_resources'[r][k] <= available_resources[r][k]

\* C33: for the requests the coordinator builds from severities 1..5, each
\* pool counter of each rescue agent is never negative and never increases
\* (0 <= held <= initial value at all times), and the amounts a rescue agent
\* has granted of a resource over all events never exceed the counter's
\* initial value.
C33_PoolBounds ==
  []C33_WithinInitial /\ [][C33_NeverIncreases]_vars

\* C33 witness: a rescue agent that started with the largest pool has
\* granted all of it and has answered a further request with nothing
C33_Witness ==
  \E r \in DOMAIN available_resources :
    /\ rescue_pc[r] = "receive"
    /\ available_resources[r] = NoResources
    /\ C33_HeldPlusGranted(r) = Resources(TeamsHi, MedicalHi, EquipmentHi)
    /\ SumCopies(sent, SentBy(r)) = 2
    /\ rescue_response[r].body.resources = NoResources

\* ------------------------------------------------------------------------
\* Environment: properties of the ticks (update_conditions, then
\* check_for_disasters)
\* ------------------------------------------------------------------------
\* once update_conditions has run, the seismic reading is a draw of
\* uniform(0, 2) and the earthquake threshold rule does not hold
C34_SeismicBelowThreshold ==
  conditions_history # << >>
    => /\ current_conditions.seismic_activity >= 0
       /\ current_conditions.seismic_activity <= 2 * Scale
       /\ ~ThresholdRules(current_conditions)[1].holds

\* a check_for_disasters call that follows an update creates an Earthquake
\* event only as its last event, in the place of the random roll, after one
\* event for each of the flood, fire and hurricane rules that hold
C34_QuakeOnlyFromRoll ==
  (checks' = checks + 1 /\ conditions_history # << >>)
    => LET n == Len(new_disasters')
           t == HoldingUpTo(current_conditions, 4)
       IN  /\ HoldingUpTo(current_conditions, 1) = 0
           /\ event_history' = event_history \o new_disasters'
           /\ \A i \in 1..n :
                new_disasters'[i].disaster_type = EARTHQUAKE
                  => /\ i = n
                     /\ n = t + 1
                     /\ new_disasters'[i].severity \in RollSeverities

\* C34: in every tick that runs update_conditions and then
\* check_for_disasters the earthquake threshold rule (seismic activity >
\* 4.0) does not fire, the seismic reading being within [0, 2] at check
\* time; an Earthquake event such a tick adds to the history comes from the
\* random roll.
C34_NoThresholdEarthquake ==
  []C34_SeismicBelowThreshold /\ [][C34_QuakeOnlyFromRoll]_vars

\* C34 witness: the environment was updated and then checked with the
\* seismic reading at 2.0, the largest draw; the one event of the check is
\* the Earthquake of the random roll
C34_Witness ==
  /\ env_last = "check"
  /\ checks = 1
  /\ Len(conditions_history) = 1
  /\ last_draw.seismic_activity = 2 * Scale
  /\ current_conditions.seismic_activity = 2 * Scale
  /\ current_conditions.water_level <= 3 * Scale
  /\ Len(new_disasters) = 1
  /\ new_disasters[1].disaster_type = EARTHQUAKE
  /\ event_history = new_disasters

\* every goal of the agent is completed
C35_AllCompleted ==
  \A i \in 1..Len(goals) :
    /\ goals[i].status = "completed"
    /\ goals[i].completed_at # NoTime

\* once RESPONDING is left, and until the cycle ends, no goal is pending or
\* active; every MONITORING entry of the trace records as many completed
\* goals as goals
C35_NothingLeftOpen ==
  /\ (~killed /\ current_state \in {STATE_MONITORING, STATE_COMPLETED})
       => C35_AllCompleted
  /\ \A i \in 1..Len(fsm_trace) :
       fsm_trace[i].state = STATE_MONITORING
         => fsm_trace[i].goals_completed = fsm_trace[i].total_goals

\* the step that leaves RESPONDING and the step that runs MONITORING find
\* and leave every goal completed
C35_CompleteOnLeaving ==
  (FSMStep /\ last_step'.outcome = "transition"
     /\ last_step'.state \in {STATE_RESPONDING, STATE_MONITORING})
    => C35_AllCompleted /\ C35_AllCompleted'

\* C35: whenever the machine leaves RESPONDING, and so whenever MONITORING
\* runs, no goal has status pending or active: every goal ever created is
\* completed, and the goals_completed MONITORING records equals total_goals.
C35_AllGoalsCompleted ==
  []C35_NothingLeftOpen /\ [][C35_CompleteOnLeaving]_vars

\* C35 witness: RESPONDING of the second cycle, for an event of severity 5,
\* has just been left; the goals of both cycles are completed
C35_Witness ==
  /\ current_state = STATE_MONITORING
  /\ last_step.state = STATE_RESPONDING
  /\ CountState(fsm_trace, STATE_RESPONDING) = 2
  /\ get_severity(current_event) = [pytype |-> "int", val |-> 5]
  /\ fsm_trace[Len(fsm_trace)].goals_completed = 5
  /\ Len(goals) >= 10
  /\ C35_AllCompleted

\* when MONITORING is about to run the goal list is not empty, and every
\* MONITORING entry of the trace records at least one goal
C36_GoalsWhenMonitoring ==
  /\ current_state = STATE_MONITORING => Len(goals) >= 1
  /\ \A i \in 1..Len(fsm_trace) :
       fsm_trace[i].state = STATE_MONITORING
         => fsm_trace[i].total_goals >= 1

\* no execution of MONITORING ends with an exception
C36_NoZeroDivision ==
  (FSMStep /\ last_step'.state = STATE_MONITORING)
    => /\ last_step'.outcome = "transition"
       /\ ~killed'
       /\ Len(goals) >= 1

\* C36: whenever MONITORING runs the goal list is non-empty (total_goals >=
\* 1), so the completed/total ratio is never computed with a zero
\* denominator on any reachable path.
C36_NonEmptyWhenMonitoring ==
  []C36_GoalsWhenMonitoring /\ [][C36_NoZeroDivision]_vars

\* C36 witness: MONITORING has run in the first cycle, for an event of the
\* lowest severity, over the smallest goal list a cycle can leave
C36_Witness ==
  /\ last_step.state = STATE_MONITORING
  /\ current_state = STATE_COMPLETED
  /\ Len(fsm_trace) = 5
  /\ fsm_trace[5].total_goals = 4
  /\ Len(goals) = 4

C38_Ids(list) == { list[i].event_id : i \in 1..Len(list) }

\* number of events of type type in a list
C38_OfType(list, type) ==
  Cardinality({ i \in 1..Len(list) : list[i].disaster_type = type })

\* a check creates, for every threshold rule whose condition holds, an
\* event of that type whose identifier no earlier event carries, whether or
\* not an event of that type is active already
C38_NewEventPerHoldingRule ==
  checks' = checks + 1 =>
    \A k \in 1..4 :
      LET rule == ThresholdRules(current_conditions)[k]
      IN  rule.holds =>
            /\ \E i \in 1..Len(new_disasters') :
                 /\ new_disasters'[i].disaster_type = rule.disaster_type
                 /\ new_disasters'[i].event_id
                      \notin C38_Ids(active_disasters) \cup C38_Ids(event_history)
            /\ C38_OfType(active_disasters', rule.disaster_type)
                 >= C38_OfType(active_disasters, rule.disaster_type) + 1

\* a check keeps every active disaster and adds the new events behind them:
\* the list grows by at least one per holding rule
C38_ListGrows ==
  checks' = checks + 1 =>
    /\ Len(active_disasters') >=
         Len(active_disasters) + HoldingUpTo(current_conditions, 4)
    /\ HoldingUpTo(current_conditions, 4) >= 1
         => Len(active_disasters') >= Len(active_disasters) + 1
    /\ SubSeq(active_disasters', 1, Len(active_disasters)) = active_disasters
    /\ SubSeq(active_disasters', Len(active_disasters) + 1,
              Len(active_disasters')) = new_disasters'

\* the active disasters carry pairwise different identifiers
C38_DistinctIds ==
  Cardinality(C38_Ids(active_disasters)) = Len(active_disasters)

\* C38: events are not de-duplicated against the active disasters: as long
\* as a threshold condition keeps holding from one tick to the next, every
\* check_for_disasters call creates a new event of that type with a new
\* identifier, so that the active-disaster list grows by at least one per
\* tick.
C38_NoDeduplication ==
  /\ []C38_DistinctIds
  /\ [][C38_NewEventPerHoldingRule /\ C38_ListGrows]_vars

\* two consecutive checks on a water level that stayed above 10.0 have left
\* two active Flood events with different identifiers
C38_Witness ==
  /\ checks = 2
  /\ current_conditions.water_level > 10 * Scale
  /\ \E i, j \in 1..Len(active_disasters) :
       /\ i < j
       /\ active_disasters[i].disaster_type = FLOOD
       /\ active_disasters[j].disaster_type = FLOOD
       /\ active_disasters[i].event_id # active_disasters[j].event_id
       /\ active_disasters[j] \in { new_disasters[n] : n \in 1..Len(new_disasters) }
       /\ active_disasters[i] \notin { new_disasters[n] : n \in 1..Len(new_disasters) }

====
